---- MODULE Spec2Model ----
(***************************************************************************)
(* Model of the page-by-page PDF analysis pipeline of llm_providers.py:    *)
(* LLMProvider.analyze_pdf and the helpers it calls (text normalisation,   *)
(* entity / relationship equivalence, the tolerant JSON response parser,   *)
(* the page context windower and the cross-page relationship pass).        *)
(*                                                                         *)
(* Text is a sequence of symbols.  A symbol is one character, written as a *)
(* TLA+ string; characters outside ASCII carry a descriptive name          *)
(* ("a_acute" is U+00E1, "COMB_ACUTE" is U+0301, "SCRIPT_B" is U+212C) and *)
(* a few fixed words that the program only handles as a unit (JSON keys,   *)
(* entity type names, the code fence, the refusal sentinel) are one symbol.*)
(***************************************************************************)
EXTENDS Integers, Sequences, FiniteSets, TLC

(***************************************************************************)
(* Generic sequence helpers                                                *)
(***************************************************************************)
RECURSIVE FlattenSeq(_)
FlattenSeq(ss) ==
    IF ss = <<>> THEN <<>> ELSE Head(ss) \o FlattenSeq(Tail(ss))

\* ''.join(c for c in s if c not in drop)
RECURSIVE DropSyms(_, _)
DropSyms(s, drop) ==
    IF s = <<>> THEN <<>>
    ELSE IF Head(s) \in drop THEN DropSyms(Tail(s), drop)
         ELSE <<Head(s)>> \o DropSyms(Tail(s), drop)

Range(s) == {s[i] : i \in 1..Len(s)}

Max2(a, b) == IF a >= b THEN a ELSE b

(***************************************************************************)
(* norm: the normalisation closure of _entity_equiv / _relationship_equiv  *)
(***************************************************************************)
\* str.lower(): symbols with a lower-case mapping, and their images
\* ("SIGMA" is U+03A3, "sigma" U+03C3, "final_sigma" U+03C2).
UpperSyms ==
    <<"A", "B", "C", "E", "G", "I", "J", "K", "L", "M", "N", "O", "P", "R",
      "T", "A_ACUTE", "I_ACUTE", "SIGMA",
      "Person", "Organization", "Location", "Date", "Event", "Object", "Code">>
LowerSyms ==
    <<"a", "b", "c", "e", "g", "i", "j", "k", "l", "m", "n", "o", "p", "r",
      "t", "a_acute", "i_acute", "sigma",
      "person", "organization", "location", "date", "event", "object", "code">>

LowerSym(c) ==
    IF \E i \in 1..Len(UpperSyms) : UpperSyms[i] = c
    THEN LowerSyms[CHOOSE i \in 1..Len(UpperSyms) : UpperSyms[i] = c]
    ELSE c

\* unicodedata.normalize('NFKD', .): compatibility decomposition per symbol.
\* SCRIPT_B (U+212C) has no lower-case mapping and decomposes to "B";
\* FW_HYPHEN (U+FF0D) decomposes to the ASCII hyphen.
NFKDSym(c) ==
    CASE c = "a_acute"   -> <<"a", "COMB_ACUTE">>
      [] c = "i_acute"   -> <<"i", "COMB_ACUTE">>
      [] c = "A_ACUTE"   -> <<"A", "COMB_ACUTE">>
      [] c = "I_ACUTE"   -> <<"I", "COMB_ACUTE">>
      [] c = "SCRIPT_B"  -> <<"B">>
      [] c = "FW_HYPHEN" -> <<"-">>
      [] OTHER           -> <<c>>

\* unicodedata.combining(c) # 0
CombiningSyms == {"COMB_ACUTE"}

\* the characters of "-_\'\".,:;()[]{} "
SeparatorSyms ==
    {"-", "_", "'", "\"", ".", ",", ":", ";", "(", ")", "[", "]", "{", "}", " "}

\* Symbols that are not cased letters: separators, white space, digits, marks.
\* Every other symbol of a text is a cased letter (or a word of letters).
UncasedSyms ==
    {"-", "_", "'", "\"", ".", ",", ":", ";", "(", ")", "[", "]", "{", "}", " ",
     "\n", "\t", "0", "1", "7", "COMB_ACUTE", "BACKTICK", "FW_HYPHEN"}

\* Unicode Case_Ignorable among them
CaseIgnorableSyms == {"COMB_ACUTE", "'", ".", ":", "BACKTICK"}

\* str.lower() maps a capital sigma (U+03A3) to the final sigma (U+03C2) when
\* a cased letter precedes it and none follows it, case-ignorable symbols
\* between them skipped; to the sigma (U+03C3) otherwise.
FinalSigma(s, i) ==
    /\ \E j \in 1..(i-1) :
          /\ s[j] \notin UncasedSyms
          /\ \A m \in (j+1)..(i-1) : s[m] \in CaseIgnorableSyms
    /\ ~ \E j \in (i+1)..Len(s) :
          /\ s[j] \notin UncasedSyms
          /\ \A m \in (i+1)..(j-1) : s[m] \in CaseIgnorableSyms

Lower(s) ==
    [i \in 1..Len(s) |->
        IF s[i] = "SIGMA" /\ FinalSigma(s, i) THEN "final_sigma"
        ELSE LowerSym(s[i])]

NFKD(s) == FlattenSeq([i \in 1..Len(s) |-> NFKDSym(s[i])])

norm(s) == DropSyms(DropSyms(NFKD(Lower(s)), CombiningSyms), SeparatorSyms)

(***************************************************************************)
(* JSON values (what json.loads returns).  Every node has the same fields: *)
(*   k     "str" | "num" | "null" | "arr" | "obj"                          *)
(*   s     the text of a string or number                                  *)
(*   keys  the keys of an object, in order (each a text)                   *)
(*   items the elements of an array / the values of an object              *)
(***************************************************************************)
JStr(s)        == [k |-> "str",  s |-> s,    keys |-> <<>>, items |-> <<>>]
JNum(s)        == [k |-> "num",  s |-> s,    keys |-> <<>>, items |-> <<>>]
JNull          == [k |-> "null", s |-> <<>>, keys |-> <<>>, items |-> <<>>]
JArr(items)    == [k |-> "arr",  s |-> <<>>, keys |-> <<>>, items |-> items]
JObj(keys, vs) == [k |-> "obj",  s |-> <<>>, keys |-> keys, items |-> vs]

\* Python's None (a function returned no value); distinct from every JSON node.
PyNone == [k |-> "None", s |-> <<>>, keys |-> <<>>, items |-> <<>>]

\* key in d, for a dict d
HasKey(d, key) == d.k = "obj" /\ \E i \in 1..Len(d.keys) : d.keys[i] = key

\* d[key] for a dict d that has the key (json.loads keeps the last duplicate)
GetKey(d, key) ==
    d.items[CHOOSE i \in 1..Len(d.keys) :
               /\ d.keys[i] = key
               /\ \A j \in (i+1)..Len(d.keys) : d.keys[j] # key]

\* d.get(key, default)
DictGet(d, key, default) == IF HasKey(d, key) THEN GetKey(d, key) ELSE default

(***************************************************************************)
(* Text helpers (str methods used by the parser)                           *)
(***************************************************************************)
WhitespaceSyms == {" ", "\n"}

\* s[a:b] with 0-based, end-exclusive Python indices already clamped
Slice(s, a, b) == SubSeq(s, a + 1, b)

StartsWith(s, p) == Len(s) >= Len(p) /\ SubSeq(s, 1, Len(p)) = p

EndsWith(s, p) == Len(s) >= Len(p) /\ SubSeq(s, Len(s) - Len(p) + 1, Len(s)) = p

\* p in s
Contains(s, p) ==
    \E i \in 0..(Len(s) - Len(p)) : SubSeq(s, i + 1, i + Len(p)) = p

\* s.rfind(c): 0-based index of the last occurrence, -1 when absent
RFind(s, c) ==
    IF \E i \in 1..Len(s) : s[i] = c
    THEN (CHOOSE i \in 1..Len(s) :
             s[i] = c /\ \A j \in (i+1)..Len(s) : s[j] # c) - 1
    ELSE -1

\* s.strip()
Strip(s) ==
    IF \A i \in 1..Len(s) : s[i] \in WhitespaceSyms THEN <<>>
    ELSE LET a == CHOOSE i \in 1..Len(s) :
                     s[i] \notin WhitespaceSyms
                     /\ \A j \in 1..(i-1) : s[j] \in WhitespaceSyms
             b == CHOOSE i \in 1..Len(s) :
                     s[i] \notin WhitespaceSyms
                     /\ \A j \in (i+1)..Len(s) : s[j] \in WhitespaceSyms
         IN  SubSeq(s, a, b)

(***************************************************************************)
(* json.dumps / json.loads over symbol sequences                           *)
(***************************************************************************)
Quote == "\""
DigitSyms == {"0", "1", "7"}

RECURSIVE Dump(_)
RECURSIVE DumpItems(_)
RECURSIVE DumpMembers(_, _)
Dump(v) ==
    CASE v.k = "str"  -> <<Quote>> \o v.s \o <<Quote>>
      [] v.k = "num"  -> v.s
      [] v.k = "null" -> <<"null">>
      [] v.k = "arr"  -> <<"[">> \o DumpItems(v.items) \o <<"]">>
      [] v.k = "obj"  -> <<"{">> \o DumpMembers(v.keys, v.items) \o <<"}">>
DumpItems(items) ==
    IF Len(items) = 0 THEN <<>>
    ELSE IF Len(items) = 1 THEN Dump(items[1])
    ELSE Dump(items[1]) \o <<",">> \o DumpItems(Tail(items))
DumpMembers(keys, vals) ==
    IF Len(keys) = 0 THEN <<>>
    ELSE LET m == <<Quote>> \o keys[1] \o <<Quote, ":">> \o Dump(vals[1])
         IN  IF Len(keys) = 1 THEN m
             ELSE m \o <<",">> \o DumpMembers(Tail(keys), Tail(vals))

\* first index >= i holding a non-whitespace symbol, Len(t)+1 when none
SkipWs(t, i) ==
    IF \E j \in i..Len(t) : t[j] \notin WhitespaceSyms
    THEN CHOOSE j \in i..Len(t) :
            t[j] \notin WhitespaceSyms
            /\ \A m \in i..(j-1) : t[m] \in WhitespaceSyms
    ELSE Len(t) + 1

\* first index >= i holding c, 0 when none
FindFrom(t, i, c) ==
    IF \E j \in i..Len(t) : t[j] = c
    THEN CHOOSE j \in i..Len(t) : t[j] = c /\ \A m \in i..(j-1) : t[m] # c
    ELSE 0

\* end (inclusive) of the run of digits starting at i
DigitsEnd(t, i) ==
    CHOOSE j \in i..Len(t) :
        /\ \A m \in i..j : t[m] \in DigitSyms
        /\ (j = Len(t) \/ t[j+1] \notin DigitSyms)

ParseFail == [ok |-> FALSE, pos |-> 0, val |-> JNull]
ParseOk(pos, val) == [ok |-> TRUE, pos |-> pos, val |-> val]

\* json's scanner: one value starting at or after position i
RECURSIVE ParseValue(_, _)
RECURSIVE ParseItems(_, _, _)
RECURSIVE ParseMembers(_, _, _, _)
ParseValue(t, i) ==
    LET p == SkipWs(t, i) IN
    IF p > Len(t) THEN ParseFail
    ELSE CASE t[p] = Quote ->
                 LET q == FindFrom(t, p + 1, Quote) IN
                 IF q = 0 THEN ParseFail
                 ELSE ParseOk(q + 1, JStr(SubSeq(t, p + 1, q - 1)))
           [] t[p] = "null" -> ParseOk(p + 1, JNull)
           [] t[p] \in DigitSyms ->
                 LET e == DigitsEnd(t, p) IN ParseOk(e + 1, JNum(SubSeq(t, p, e)))
           [] t[p] = "[" ->
                 LET q == SkipWs(t, p + 1) IN
                 IF q <= Len(t) /\ t[q] = "]" THEN ParseOk(q + 1, JArr(<<>>))
                 ELSE ParseItems(t, p + 1, <<>>)
           [] t[p] = "{" ->
                 LET q == SkipWs(t, p + 1) IN
                 IF q <= Len(t) /\ t[q] = "}" THEN ParseOk(q + 1, JObj(<<>>, <<>>))
                 ELSE ParseMembers(t, p + 1, <<>>, <<>>)
           [] OTHER -> ParseFail
ParseItems(t, i, acc) ==
    LET r == ParseValue(t, i) IN
    IF ~r.ok THEN ParseFail
    ELSE LET q == SkipWs(t, r.pos) IN
         IF q > Len(t) THEN ParseFail
         ELSE IF t[q] = "," THEN ParseItems(t, q + 1, Append(acc, r.val))
         ELSE IF t[q] = "]" THEN ParseOk(q + 1, JArr(Append(acc, r.val)))
         ELSE ParseFail
ParseMembers(t, i, keys, vals) ==
    LET p == SkipWs(t, i) IN
    IF p > Len(t) \/ t[p] # Quote THEN ParseFail
    ELSE LET q == FindFrom(t, p + 1, Quote) IN
         IF q = 0 THEN ParseFail
         ELSE LET c == SkipWs(t, q + 1) IN
              IF c > Len(t) \/ t[c] # ":" THEN ParseFail
              ELSE LET r == ParseValue(t, c + 1) IN
                   IF ~r.ok THEN ParseFail
                   ELSE LET e  == SkipWs(t, r.pos)
                            ks == Append(keys, SubSeq(t, p + 1, q - 1))
                            vs == Append(vals, r.val)
                        IN  IF e > Len(t) THEN ParseFail
                            ELSE IF t[e] = "," THEN ParseMembers(t, e + 1, ks, vs)
                            ELSE IF t[e] = "}" THEN ParseOk(e + 1, JObj(ks, vs))
                            ELSE ParseFail

\* json.loads(t): ok = no JSONDecodeError (one value, then only whitespace)
json_loads(t) ==
    LET r == ParseValue(t, 1) IN
    IF r.ok /\ SkipWs(t, r.pos) > Len(t)
    THEN [ok |-> TRUE, val |-> r.val]
    ELSE [ok |-> FALSE, val |-> JNull]

(***************************************************************************)
(* _create_error_response and _parse_json_response_tolerant                *)
(***************************************************************************)
\* the seven entity types, in the order of the all_entities dict
EntityTypes ==
    <<"Person", "Organization", "Location", "Date", "Event", "Object", "Code">>

Key(word) == <<word>>

\* now: the value of time.strftime at the call
create_error_response(error_message, now) ==
    JObj(<<Key("documentAnalysis")>>,
         <<JObj(<<Key("metadata"), Key("entities"), Key("relationships")>>,
                <<JObj(<<Key("title"), Key("analysisDate"), Key("provider"),
                         Key("error")>>,
                       <<JStr(<<"Error">>), JStr(now), JStr(<<"LLMProvider">>),
                         JStr(error_message)>>),
                  JObj([i \in 1..Len(EntityTypes) |-> Key(EntityTypes[i])],
                       [i \in 1..Len(EntityTypes) |-> JArr(<<>>)]),
                  JArr(<<>>)>>)>>)

\* "BACKTICK" is the character U+0060
FenceJson == <<"BACKTICK", "BACKTICK", "BACKTICK", "j", "s", "o", "n">>
Fence == <<"BACKTICK", "BACKTICK", "BACKTICK">>
PromptAttackSentinel == <<"Prompt", " ", "Attack", " ", "Detected">>

\* A value returned by generate_response: str = FALSE is a non-string
\* content (no .strip method).
StrResponse(text) == [str |-> TRUE, text |-> text]
NonStrResponse == [str |-> FALSE, text |-> <<>>]

\* lines 543-547: strip, then drop a leading fence+json and a trailing fence
CleanResponse(text) ==
    LET stripped == Strip(text)
        unfenced == IF StartsWith(stripped, FenceJson)
                    THEN Slice(stripped, 7, Len(stripped))
                    ELSE stripped
    IN  IF EndsWith(unfenced, Fence)
        THEN Slice(unfenced, 0, Len(unfenced) - 3)
        ELSE unfenced

\* lines 554-558: the prefix up to the right-most closer, when last_pos > 0
TruncatePos(cleaned) == Max2(RFind(cleaned, "}"), RFind(cleaned, "]"))

\* Fault variant of the truncation: the cut text is repaired by closing the
\* array, so a value is assembled from a prefix that does not parse.
Truncated_Repaired(cleaned) ==
    Slice(cleaned, 0, TruncatePos(cleaned) + 1) \o <<"]">>

Truncated(cleaned) == Slice(cleaned, 0, TruncatePos(cleaned) + 1)

\* lines 563-566: neither parse succeeded
ParseFailed(text, now) ==
    IF Contains(text, PromptAttackSentinel)
    THEN [path |-> "prompt_attack",
          val |-> create_error_response(
                      <<"El LLM detecto contenido potencialmente problematico">>,
                      now)]
    ELSE [path |-> "parse_error",
          val |-> create_error_response(
                      <<"Error al parsear respuesta del LLM">>, now)]

\* Fault variant of the recovery: the recovered value is wrapped with the
\* time of the call.
ParseRecovered_Stamped(text, recovered, now) ==
    IF recovered.ok
    THEN [path |-> "truncated",
          val |-> JObj(<<Key("analysisDate"), Key("value")>>,
                       <<JStr(now), recovered.val>>)]
    ELSE ParseFailed(text, now)

\* lines 559-562: recovered is json.loads of the truncated text
ParseRecovered(text, recovered, now) ==
    IF recovered.ok THEN [path |-> "truncated", val |-> recovered.val]
    ELSE ParseFailed(text, now)

\* lines 548-558: strict is json.loads of the cleaned text
ParseStrict(text, cleaned, strict, now) ==
    IF strict.ok THEN [path |-> "strict", val |-> strict.val]
    ELSE IF TruncatePos(cleaned) > 0
    THEN ParseRecovered(text, json_loads(Truncated(cleaned)), now)
    ELSE ParseFailed(text, now)

ParseCleaned(text, cleaned, now) ==
    ParseStrict(text, cleaned, json_loads(cleaned), now)

\* The parser, with the path it returned by:
\*   "strict"        line 549     "truncated"     line 560
\*   "prompt_attack" line 565     "parse_error"   line 566
\*   "unexpected"    line 569
ParseTolerant(response, now) ==
    IF ~response.str
    THEN [path |-> "unexpected",
          val |-> create_error_response(<<"Error inesperado en el parser">>, now)]
    ELSE ParseCleaned(response.text, CleanResponse(response.text), now)

parse_json_response_tolerant(response, now) == ParseTolerant(response, now).val

(***************************************************************************)
(* Python object protocol on JSON values                                   *)
(***************************************************************************)
\* bool(v)
Truthy(v) ==
    CASE v.k = "None" -> FALSE
      [] v.k = "null" -> FALSE
      [] v.k = "str"  -> Len(v.s) > 0
      [] v.k = "num"  -> \E i \in 1..Len(v.s) : v.s[i] # "0"
      [] v.k = "arr"  -> Len(v.items) > 0
      [] v.k = "obj"  -> Len(v.keys) > 0

\* iter(v): None and numbers are not iterable (TypeError)
Iterable(v) == v.k \in {"arr", "str", "obj"}

\* list(v) for an iterable v: elements, characters, or keys
IterItems(v) ==
    CASE v.k = "arr" -> v.items
      [] v.k = "str" -> [i \in 1..Len(v.s) |-> JStr(<<v.s[i]>>)]
      [] v.k = "obj" -> [i \in 1..Len(v.keys) |-> JStr(v.keys[i])]
      [] OTHER       -> <<>>

\* key in v: "raise" for a TypeError (v is a number)
InResult(key, v) ==
    CASE v.k = "obj" -> IF HasKey(v, key) THEN "true" ELSE "false"
      [] v.k = "arr" -> IF \E i \in 1..Len(v.items) : v.items[i] = JStr(key)
                        THEN "true" ELSE "false"
      [] v.k = "str" -> IF Contains(v.s, key) THEN "true" ELSE "false"
      [] OTHER       -> "raise"

EmptyDict == JObj(<<>>, <<>>)
EmptyList == JArr(<<>>)
EmptyStr  == JStr(<<>>)

(***************************************************************************)
(* _entity_equiv and _relationship_equiv                                   *)
(* Each comes as a pair: ...Raises (the call ends in an exception) and the *)
(* value it returns otherwise.                                             *)
(***************************************************************************)
\* norm(x) raises AttributeError unless x is a str
NormRaises(x) == x.k # "str"

\* [norm(a) for a in ent.get('aliases', [])] raises
AliasesRaise(ent) ==
    LET al == DictGet(ent, Key("aliases"), EmptyList) IN
    \/ ~Iterable(al)
    \/ \E i \in 1..Len(IterItems(al)) : NormRaises(IterItems(al)[i])

\* the list of normalised aliases
NormAliases(ent) ==
    LET items == IterItems(DictGet(ent, Key("aliases"), EmptyList))
    IN  [i \in 1..Len(items) |-> norm(items[i].s)]

EntityName(ent) == DictGet(ent, Key("name"), EmptyStr)

entity_equiv_raises(ent1, ent2) ==
    \/ ent1.k # "obj" \/ NormRaises(EntityName(ent1))
    \/ ent2.k # "obj" \/ NormRaises(EntityName(ent2))
    \/ /\ norm(EntityName(ent1).s) # norm(EntityName(ent2).s)
       /\ (AliasesRaise(ent1) \/ AliasesRaise(ent2))

\* Fault variant of _entity_equiv: the alias rules are missing.
entity_equiv_NameOnly(ent1, ent2) ==
    norm(EntityName(ent1).s) = norm(EntityName(ent2).s)

\* Fault variant of _entity_equiv: only the first name is looked up in the
\* other entity's aliases.
entity_equiv_OneWay(ent1, ent2) ==
    LET n1 == norm(EntityName(ent1).s)
        n2 == norm(EntityName(ent2).s)
    IN  \/ n1 = n2
        \/ n1 \in Range(NormAliases(ent2))
        \/ Range(NormAliases(ent1)) \cap Range(NormAliases(ent2)) # {}

entity_equiv(ent1, ent2) ==
    LET n1 == norm(EntityName(ent1).s)
        n2 == norm(EntityName(ent2).s)
    IN  \/ n1 = n2
        \/ n1 \in Range(NormAliases(ent2)) \/ n2 \in Range(NormAliases(ent1))
        \/ Range(NormAliases(ent1)) \cap Range(NormAliases(ent2)) # {}

RelPart(rel, part) == DictGet(rel, Key(part), EmptyDict)
RelField(rel, part, field) == DictGet(RelPart(rel, part), Key(field), EmptyStr)
RelAction(rel) == DictGet(rel, Key("action"), EmptyStr)

\* the comparisons of the return statement, in evaluation order
RelFieldPairs(rel1, rel2) ==
    <<  <<RelField(rel1, "subject", "type"), RelField(rel2, "subject", "type")>>,
        <<RelField(rel1, "subject", "name"), RelField(rel2, "subject", "name")>>,
        <<RelField(rel1, "object", "type"),  RelField(rel2, "object", "type")>>,
        <<RelField(rel1, "object", "name"),  RelField(rel2, "object", "name")>>  >>

\* evaluating comparison i raises: a subject/object that is not a dict has
\* no .get, a field that is not a str has no .lower
PairRaises(rel1, rel2, i) ==
    LET part == IF i <= 2 THEN "subject" ELSE "object"
        pr   == RelFieldPairs(rel1, rel2)[i]
    IN  \/ RelPart(rel1, part).k # "obj" \/ RelPart(rel2, part).k # "obj"
        \/ NormRaises(pr[1]) \/ NormRaises(pr[2])
PairEqual(pr)  == norm(pr[1].s) = norm(pr[2].s)

relationship_equiv_raises(rel1, rel2) ==
    \/ rel1.k # "obj" \/ rel2.k # "obj"
    \/ NormRaises(RelAction(rel1)) \/ NormRaises(RelAction(rel2))
    \/ \E i \in 1..4 :
          /\ PairRaises(rel1, rel2, i)
          /\ \A j \in 1..(i-1) : /\ ~PairRaises(rel1, rel2, j)
                                 /\ PairEqual(RelFieldPairs(rel1, rel2)[j])

\* Fault variant of _relationship_equiv: the names are compared as written.
relationship_equiv_RawNames(rel1, rel2) ==
    /\ PairEqual(RelFieldPairs(rel1, rel2)[1])
    /\ RelFieldPairs(rel1, rel2)[2][1].s = RelFieldPairs(rel1, rel2)[2][2].s
    /\ PairEqual(RelFieldPairs(rel1, rel2)[3])
    /\ RelFieldPairs(rel1, rel2)[4][1].s = RelFieldPairs(rel1, rel2)[4][2].s
    /\ norm(RelAction(rel1).s) = norm(RelAction(rel2).s)

\* Fault variant of _relationship_equiv: the category is compared too.
relationship_equiv_WithCategory(rel1, rel2) ==
    /\ \A i \in 1..4 : PairEqual(RelFieldPairs(rel1, rel2)[i])
    /\ norm(RelAction(rel1).s) = norm(RelAction(rel2).s)
    /\ DictGet(rel1, Key("category"), EmptyStr)
          = DictGet(rel2, Key("category"), EmptyStr)

relationship_equiv(rel1, rel2) ==
    /\ \A i \in 1..4 : PairEqual(RelFieldPairs(rel1, rel2)[i])
    /\ norm(RelAction(rel1).s) = norm(RelAction(rel2).s)

(***************************************************************************)
(* The merge loops of analyze_pdf (lines 161-173 and 188-190)              *)
(***************************************************************************)
\* one call of an equivalence predicate: "raise", "true" or "false"
entity_equiv_call(ent1, ent2) ==
    IF entity_equiv_raises(ent1, ent2) THEN "raise"
    ELSE IF entity_equiv(ent1, ent2) THEN "true" ELSE "false"

relationship_equiv_call(rel1, rel2) ==
    IF relationship_equiv_raises(rel1, rel2) THEN "raise"
    ELSE IF relationship_equiv(rel1, rel2) THEN "true" ELSE "false"

\* any(...) over the calls in order: the first call that raises or returns
\* True decides; "false" when none does.
AnyOf(calls) ==
    IF \A i \in 1..Len(calls) : calls[i] = "false" THEN "false"
    ELSE calls[CHOOSE i \in 1..Len(calls) :
                  /\ calls[i] # "false"
                  /\ \A j \in 1..(i-1) : calls[j] = "false"]

\* any(self._entity_equiv(entity, existing) for existing in stored), line 166
AnyEntityEquiv(entity, stored) ==
    AnyOf([i \in 1..Len(stored) |-> entity_equiv_call(entity, stored[i])])

\* any(self._relationship_equiv(rel, existing) for existing in stored)
AnyRelationshipEquiv(rel, stored) ==
    AnyOf([i \in 1..Len(stored) |-> relationship_equiv_call(rel, stored[i])])

\* lines 165-167 for one entity type: the list as the loop leaves it, and
\* whether the loop raised.  ...Step is the loop body once any() is known.
RECURSIVE MergeEntityList(_, _)
RECURSIVE MergeEntityStep(_, _, _)
MergeEntityList(stored, incoming) ==
    IF Len(incoming) = 0 THEN [list |-> stored, raised |-> FALSE]
    ELSE MergeEntityStep(stored, incoming,
                         AnyEntityEquiv(Head(incoming), stored))
\* Fault variant of the entity merge: an equivalent incoming entity replaces
\* the stored one.
MergeEntityStep_Replace(stored, incoming, hit) ==
    IF hit = "raise" THEN [list |-> stored, raised |-> TRUE]
    ELSE IF hit = "true"
    THEN MergeEntityList(
             [i \in 1..Len(stored) |->
                 IF entity_equiv_call(Head(incoming), stored[i]) = "true"
                 THEN Head(incoming) ELSE stored[i]],
             Tail(incoming))
    ELSE MergeEntityList(Append(stored, Head(incoming)), Tail(incoming))

MergeEntityStep(stored, incoming, hit) ==
    IF hit = "raise" THEN [list |-> stored, raised |-> TRUE]
    ELSE IF hit = "true" THEN MergeEntityList(stored, Tail(incoming))
    ELSE MergeEntityList(Append(stored, Head(incoming)), Tail(incoming))

\* lines 171-173 and 188-190
RECURSIVE MergeRelationshipList(_, _)
RECURSIVE MergeRelationshipStep(_, _, _)
MergeRelationshipList(stored, incoming) ==
    IF Len(incoming) = 0 THEN [list |-> stored, raised |-> FALSE]
    ELSE MergeRelationshipStep(stored, incoming,
                               AnyRelationshipEquiv(Head(incoming), stored))
\* Fault variant of the relationship merge: an equivalent incoming
\* relationship overwrites the stored one (last write wins).
MergeRelationshipStep_Overwrite(stored, incoming, hit) ==
    IF hit = "raise" THEN [list |-> stored, raised |-> TRUE]
    ELSE IF hit = "true"
    THEN MergeRelationshipList(
             [i \in 1..Len(stored) |->
                 IF relationship_equiv_call(Head(incoming), stored[i]) = "true"
                 THEN Head(incoming) ELSE stored[i]],
             Tail(incoming))
    ELSE MergeRelationshipList(Append(stored, Head(incoming)), Tail(incoming))

MergeRelationshipStep(stored, incoming, hit) ==
    IF hit = "raise" THEN [list |-> stored, raised |-> TRUE]
    ELSE IF hit = "true" THEN MergeRelationshipList(stored, Tail(incoming))
    ELSE MergeRelationshipList(Append(stored, Head(incoming)), Tail(incoming))

\* lines 164-167: for entity_type in all_entities, from the i-th type on.
\* entities is the value of documentAnalysis.get('entities', {}).
\* ...Typed continues once the list of the i-th type has been merged (m).
RECURSIVE MergeEntityTypes(_, _, _)
RECURSIVE MergeEntityTyped(_, _, _, _)
\* Fault variant of the loop over the types: an incoming entity that is
\* equivalent to an entity stored under any type is dropped.
MergeEntityTypes_AcrossTypes(all, entities, i) ==
    IF i > Len(EntityTypes) THEN [all |-> all, raised |-> FALSE]
    ELSE IF entities.k # "obj" THEN [all |-> all, raised |-> TRUE]
    ELSE IF ~Iterable(DictGet(entities, Key(EntityTypes[i]), EmptyList))
    THEN [all |-> all, raised |-> TRUE]
    ELSE MergeEntityTyped(all, entities, i,
            MergeEntityList(all[EntityTypes[i]],
                SelectSeq(IterItems(DictGet(entities, Key(EntityTypes[i]),
                                            EmptyList)),
                          LAMBDA e :
                             \A t \in 1..Len(EntityTypes) :
                                AnyEntityEquiv(e, all[EntityTypes[t]])
                                   # "true")))

MergeEntityTypes(all, entities, i) ==
    IF i > Len(EntityTypes) THEN [all |-> all, raised |-> FALSE]
    ELSE IF entities.k # "obj" THEN [all |-> all, raised |-> TRUE]
    ELSE IF ~Iterable(DictGet(entities, Key(EntityTypes[i]), EmptyList))
    THEN [all |-> all, raised |-> TRUE]
    ELSE MergeEntityTyped(all, entities, i,
            MergeEntityList(all[EntityTypes[i]],
                IterItems(DictGet(entities, Key(EntityTypes[i]), EmptyList))))
MergeEntityTyped(all, entities, i, m) ==
    IF m.raised
    THEN [all |-> [all EXCEPT ![EntityTypes[i]] = m.list], raised |-> TRUE]
    ELSE MergeEntityTypes([all EXCEPT ![EntityTypes[i]] = m.list],
                          entities, i + 1)

MergeOutcome(all, rels, raised, failed) ==
    [all |-> all, rels |-> rels, raised |-> raised, failed |-> failed]

\* lines 170-173, given the merged relationship list mr
MergedRelationships(all, mr) == MergeOutcome(all, mr.list, mr.raised, FALSE)

\* lines 169-173, given the merged entities me
MergeRelationshipsOf(me, rels, rl) ==
    IF me.raised THEN MergeOutcome(me.all, rels, TRUE, FALSE)
    ELSE IF ~Iterable(rl) THEN MergeOutcome(me.all, rels, TRUE, FALSE)
    ELSE MergedRelationships(me.all, MergeRelationshipList(rels, IterItems(rl)))

\* lines 163-173 for da = page_result['documentAnalysis']
MergeDocumentAnalysis(all, rels, da) ==
    IF da.k # "obj" THEN MergeOutcome(all, rels, TRUE, FALSE)
    ELSE MergeRelationshipsOf(
             MergeEntityTypes(all, DictGet(da, Key("entities"), EmptyDict), 1),
             rels, DictGet(da, Key("relationships"), EmptyList))

\* line 161, "true" / "false" / "raise":
\* page_result and 'documentAnalysis' in page_result
HasDocumentAnalysis(page_result) ==
    IF ~Truthy(page_result) THEN "false"
    ELSE InResult(Key("documentAnalysis"), page_result)

\* lines 161-175 for one page_result: the accumulators after the block, whether
\* an exception left it (raised), and whether the else branch of line 175 was
\* taken (failed).
MergePageResult(all, rels, page_result) ==
    IF HasDocumentAnalysis(page_result) = "raise"
    THEN MergeOutcome(all, rels, TRUE, FALSE)
    ELSE IF HasDocumentAnalysis(page_result) = "false"
    THEN MergeOutcome(all, rels, FALSE, TRUE)
    ELSE IF page_result.k # "obj" THEN MergeOutcome(all, rels, TRUE, FALSE)
    ELSE MergeDocumentAnalysis(all, rels,
                               GetKey(page_result, Key("documentAnalysis")))

(***************************************************************************)
(* Program constants and bounds                                            *)
(***************************************************************************)
OverlapSize == 200
NoiseThreshold == 50

\* largest document, in pages
MaxPages == 2

(***************************************************************************)
(* _add_page_context                                                       *)
(***************************************************************************)
Rep(c, n) == [i \in 1..n |-> c]

\* A page of the opened document:
\*   loads   load_page / get_text succeed
\*   direct  the text get_text returns
\*   ocr_ok  image rendering and pytesseract succeed
\*   ocr     the text recognition returns
Page(loads, direct, ocr_ok, ocr) ==
    [loads |-> loads, direct |-> direct, ocr_ok |-> ocr_ok, ocr |-> ocr]

\* lines 222-228 / 247-253: the neighbour's text, or an exception
NeighbourText(page, ocr_available) ==
    IF ~page.loads THEN [ok |-> FALSE, text |-> <<>>]
    ELSE IF Len(Strip(page.direct)) < NoiseThreshold /\ ocr_available
    THEN (IF page.ocr_ok THEN [ok |-> TRUE, text |-> page.ocr]
          ELSE [ok |-> FALSE, text |-> <<>>])
    ELSE [ok |-> TRUE, text |-> page.direct]

PrevMarker == <<"[", "CONTEXTO PAGINA ANTERIOR", "]", "\n">>
NextMarker == <<"\n", "[", "CONTEXTO PAGINA SIGUIENTE", "]", "\n">>
PageMarker(page_num) == <<"[", "PAGINA", " ", ToString(page_num + 1), "]", "\n">>

\* variant: the previous context is cut from the start of the text
PrevPart_Leading(page, ocr_available, overlap_size) ==
    LET t == NeighbourText(page, ocr_available)
        prev_context == IF Len(t.text) > overlap_size
                        THEN SubSeq(t.text, 1, overlap_size)
                        ELSE t.text
    IN  IF t.ok /\ Len(Strip(prev_context)) > 0
        THEN << PrevMarker \o prev_context \o <<"\n">> >>
        ELSE <<>>

\* lines 231-237: the previous-context part, <<>> when none is appended
PrevPart(page, ocr_available, overlap_size) ==
    LET t == NeighbourText(page, ocr_available)
        prev_context == IF Len(t.text) > overlap_size
                        THEN SubSeq(t.text, Len(t.text) - overlap_size + 1,
                                    Len(t.text))
                        ELSE t.text
    IN  IF t.ok /\ Len(Strip(prev_context)) > 0
        THEN << PrevMarker \o prev_context \o <<"\n">> >>
        ELSE <<>>

\* lines 256-262
NextPart(page, ocr_available, overlap_size) ==
    LET t == NeighbourText(page, ocr_available)
        next_context == IF Len(t.text) > overlap_size
                        THEN SubSeq(t.text, 1, overlap_size)
                        ELSE t.text
    IN  IF t.ok /\ Len(Strip(next_context)) > 0
        THEN << NextMarker \o next_context >>
        ELSE <<>>

\* "\n".join(parts)
RECURSIVE JoinLines(_)
JoinLines(parts) ==
    IF Len(parts) = 0 THEN <<>>
    ELSE IF Len(parts) = 1 THEN parts[1]
    ELSE parts[1] \o <<"\n">> \o JoinLines(Tail(parts))

\* variant: a page without a neighbour gets an empty segment under the marker
add_page_context_Padded(page_text, page_num, total_pages, pages, ocr_available, overlap_size) ==
    LET prev == IF page_num > 0
                THEN PrevPart(pages[page_num], ocr_available, overlap_size)
                ELSE << PrevMarker \o <<"\n">> >>
        cur  == << PageMarker(page_num) \o page_text >>
        next == IF page_num < total_pages - 1
                THEN NextPart(pages[page_num + 2], ocr_available, overlap_size)
                ELSE << NextMarker >>
    IN  JoinLines(prev \o cur \o next)

\* page_num is 0-based; pages is the document
add_page_context(page_text, page_num, total_pages, pages, ocr_available, overlap_size) ==
    LET prev == IF page_num > 0
                THEN PrevPart(pages[page_num], ocr_available, overlap_size)
                ELSE <<>>
        cur  == << PageMarker(page_num) \o page_text >>
        next == IF page_num < total_pages - 1
                THEN NextPart(pages[page_num + 2], ocr_available, overlap_size)
                ELSE <<>>
    IN  JoinLines(prev \o cur \o next)

(***************************************************************************)
(* generate_response outcomes and _analyze_single_page                     *)
(***************************************************************************)
\* generate_response either raises an exception with message exc (str(e)),
\* or returns response.
Raise(exc)       == [raises |-> TRUE,  exc |-> exc, response |-> NonStrResponse]
Return(response) == [raises |-> FALSE, exc |-> <<>>, response |-> response]

ContentFilterText ==
    <<"c", "o", "n", "t", "e", "n", "t", " ", "f", "i", "l", "t", "e", "r">>

\* line 285: "content filter" in str(e).lower()
IsContentFilter(exc) == Contains(Lower(exc), ContentFilterText)

\* Fault variant of _analyze_single_page: an oracle exception other than a
\* content-filter block is answered with an error response instead of None.
AnalyzeSinglePage_ErrorAsResponse(page_text, outcome, now) ==
    IF Len(Strip(page_text)) = 0 THEN [path |-> "blank", val |-> PyNone]
    ELSE IF outcome.raises
    THEN (IF IsContentFilter(outcome.exc)
          THEN [path |-> "content_filter", val |-> PyNone]
          ELSE [path |-> "oracle_error",
                val |-> create_error_response(outcome.exc, now)])
    ELSE ParseTolerant(outcome.response, now)

\* lines 268-292; the value returned and the path taken:
\*   "blank" line 271, "content_filter" line 287, "oracle_error" line 289,
\*   otherwise the path through the parser
AnalyzeSinglePage(page_text, outcome, now) ==
    IF Len(Strip(page_text)) = 0 THEN [path |-> "blank", val |-> PyNone]
    ELSE IF outcome.raises
    THEN (IF IsContentFilter(outcome.exc)
          THEN [path |-> "content_filter", val |-> PyNone]
          ELSE [path |-> "oracle_error", val |-> PyNone])
    ELSE ParseTolerant(outcome.response, now)

analyze_single_page(page_text, outcome, now) ==
    AnalyzeSinglePage(page_text, outcome, now).val

\* any(entities.values()), line 296
AnyEntities(all) == \E i \in 1..Len(EntityTypes) : Len(all[EntityTypes[i]]) > 0

\* line 316: parsed if isinstance(parsed, list) else []
ListOrEmpty(parsed) == IF parsed.k = "arr" THEN parsed.items ELSE <<>>

\* variant: the pass calls the oracle whether or not an entity is stored
analyze_cross_page_relationships_Always(all, outcome, now) ==
    IF outcome.raises THEN [call |-> TRUE, list |-> <<>>]
    ELSE [call |-> TRUE,
          list |-> ListOrEmpty(
                       parse_json_response_tolerant(outcome.response, now))]

\* lines 294-316: the list returned; call = the oracle was invoked
analyze_cross_page_relationships(all, outcome, now) ==
    IF ~AnyEntities(all) THEN [call |-> FALSE, list |-> <<>>]
    ELSE IF outcome.raises THEN [call |-> TRUE, list |-> <<>>]
    ELSE [call |-> TRUE,
          list |-> ListOrEmpty(
                       parse_json_response_tolerant(outcome.response, now))]

(***************************************************************************)
(* Inputs: entities, relationships, oracle answers, documents              *)
(***************************************************************************)
Texts(ts) == [i \in 1..Len(ts) |-> JStr(ts[i])]

\* {"name": ..., "aliases": [...]}
Ent(name, aliases) ==
    JObj(<<Key("name"), Key("aliases")>>, <<JStr(name), JArr(Texts(aliases))>>)

\* ... with a "translation"
EntT(name, aliases, translation) ==
    JObj(<<Key("name"), Key("aliases"), Key("translation")>>,
         <<JStr(name), JArr(Texts(aliases)), JStr(translation)>>)

TypedName(type, name) ==
    JObj(<<Key("type"), Key("name")>>, <<JStr(Key(type)), JStr(name)>>)

Rel(stype, sname, action, otype, oname, category, source) ==
    JObj(<<Key("subject"), Key("action"), Key("object"), Key("category"),
           Key("source")>>,
         <<TypedName(stype, sname), JStr(action), TypedName(otype, oname),
           JStr(Key(category)), JStr(Key(source))>>)

\* {"documentAnalysis": {"entities": {type: [...], ...}, "relationships": [...]}}
Doc(types, lists, rels) ==
    JObj(<<Key("documentAnalysis")>>,
         <<JObj(<<Key("entities"), Key("relationships")>>,
                <<JObj([i \in 1..Len(types) |-> Key(types[i])],
                       [i \in 1..Len(types) |-> JArr(lists[i])]),
                  JArr(rels)>>)>>)

Beijing    == <<"B", "e", "i", "j", "i", "n", "g">>
Pekin      == <<"P", "e", "k", "i_acute", "n">>
Peking     == <<"P", "e", "k", "i", "n", "g">>
Alberto    == <<"A", "l", "b", "e", "r", "t", "o">>
AlbertoV   == <<"A_ACUTE", "L", "B", "E", "R", "T", "O">>
AcmeInc    == <<"A", "C", "M", "E", " ", "I", "n", "c", ".">>
AcmeIncV   == <<"a", "c", "m", "e", "-", "i", "n", "c">>
Joined     == <<"j", "o", "i", "n", "e", "d">>
JoinedV    == <<"J", "o", "i", "n", "e", "d">>
Visited    == <<"v", "i", "s", "i", "t", "e", "d">>
LocatedIn  == <<"l", "o", "c", "a", "t", "e", "d", " ", "i", "n">>

LocBeijing  == Ent(Beijing, <<>>)
LocPekin    == EntT(Pekin, <<Beijing>>, Beijing)
LocPeking   == Ent(Peking, <<Pekin>>)
PerAlberto  == Ent(Alberto, <<>>)
PerAlbertoV == Ent(AlbertoV, << <<"A", "l">> >>)
OrgAcme     == Ent(AcmeInc, <<>>)

RelJoined  == Rel("Person", Alberto, Joined, "Organization", AcmeInc,
                  "affiliation", "explicit")
RelJoinedV == Rel("Person", AlbertoV, JoinedV, "Organization", AcmeIncV,
                  "membership", "inferred")
RelVisited == Rel("Person", Alberto, Visited, "Location", Beijing,
                  "mobility", "explicit")
RelLocated == Rel("Organization", AcmeInc, LocatedIn, "Location", Beijing,
                  "location", "inferred")

DocA == Doc(<<"Person", "Organization", "Location">>,
            << <<PerAlberto>>, <<OrgAcme>>, <<LocBeijing>> >>, <<RelJoined>>)
DocB == Doc(<<"Person", "Location">>,
            << <<PerAlbertoV>>, <<LocPekin, LocPeking>> >>,
            <<RelJoinedV, RelVisited>>)
\* ... with an organization that has the name of DocA's location
DocC == Doc(<<"Location", "Organization">>,
            << <<LocPeking>>, <<LocBeijing>> >>, <<RelVisited>>)
\* the model answered with a bare name where an entity object is expected
DocBad == Doc(<<"Person", "Location">>,
              << <<PerAlberto>>, <<JStr(Beijing)>> >>, <<RelVisited>>)

ContentFilterExc == <<"C", "o", "n", "t", "e", "n", "t", " ", "f", "i", "l", "t",
                      "e", "r", " ", "triggered">>
TransportExc == <<"Connection", " ", "error">>
TimeoutExc   == <<"Request", " ", "timed", " ", "out">>

\* what generate_response may do for a page prompt
PageOutcomes ==
    << Return(StrResponse(Dump(DocA))),
       Return(StrResponse(FenceJson \o <<"\n">> \o Dump(DocB) \o <<"\n">> \o Fence)),
       Return(StrResponse(Dump(DocC) \o <<"\n", "N", "o", "t", "e">>)),
       Return(StrResponse(SubSeq(Dump(DocA), 1, Len(Dump(DocA)) - 2))),
       Return(StrResponse(PromptAttackSentinel \o <<".">>)),
       Return(StrResponse(Dump(DocBad))),
       Return(StrResponse(Dump(JObj(<<Key("note")>>, <<JStr(<<"n", "o">>)>>)))),
       Return(NonStrResponse),
       Raise(ContentFilterExc),
       Raise(TransportExc),
       Raise(TimeoutExc) >>

\* what generate_response may do for the cross-page prompt
CrossOutcomes ==
    << Return(StrResponse(Dump(JArr(<<RelJoinedV, RelLocated>>)))),
       Return(StrResponse(SubSeq(Dump(JArr(<<RelLocated>>)), 1, 12))),
       Return(StrResponse(Dump(DocA))),
       Return(StrResponse(Dump(JArr(<<JStr(Joined)>>)))),
       Raise(TransportExc),
       Return(StrResponse(PromptAttackSentinel \o <<".">>)) >>

\* values of time.strftime
Times == { <<"T1">>, <<"T2">> }

PageText    == Page(TRUE, Rep("x", NoiseThreshold + 10), TRUE, <<>>)
PageScanned == Page(TRUE, <<"7">>, TRUE, Rep("y", NoiseThreshold + 10))
PageBlank   == Page(TRUE, <<"\n">>, TRUE, <<" ">>)
PageOcrFail == Page(TRUE, <<>>, FALSE, <<>>)
PageCorrupt == Page(FALSE, <<>>, FALSE, <<>>)
PageKinds   == <<PageText, PageScanned, PageBlank, PageOcrFail, PageCorrupt>>

\* the documents: n pages, page kinds in rotation from offset p
DocPages(n, p) ==
    [i \in 1..n |-> PageKinds[((i - 1 + p) % Len(PageKinds)) + 1]]

\* pdf_content: bytes fitz can open (with their pages) or cannot
PdfInputs ==
    {[readable |-> FALSE, pages |-> <<>>]}
    \cup {[readable |-> TRUE, pages |-> DocPages(n, p)] :
             n \in 1..MaxPages, p \in 0..(Len(PageKinds) - 1)}

(***************************************************************************)
(* analyze_pdf as a state machine                                          *)
(***************************************************************************)
VARIABLES
    fitz,               \* the PyMuPDF import succeeded (module level, line 19)
    OCR_AVAILABLE,      \* the pytesseract / PIL import succeeded (line 26)
    pdf,                \* the pdf_content argument
    pc,                 \* "start", "pages" (the loop of line 135), "done"
    num_pages,
    page_num,           \* loop variable, 0-based; the next page to process
    all_entities,
    all_relationships,
    errors,
    result,             \* what analyze_pdf returned or raised
    log,                \* history: one entry per loop iteration and one for
                        \* the cross-page pass
    lab                 \* state of the merge harness (MergeSpec); idle in Spec

vars == <<fitz, OCR_AVAILABLE, pdf, pc, num_pages, page_num, all_entities,
          all_relationships, errors, result, log, lab>>

NoEntities == [t \in Range(EntityTypes) |-> <<>>]

LabIdle == [k |-> 0, input |-> <<>>, order |-> <<>>, accA |-> <<>>,
            accB |-> <<>>, preA |-> <<>>]

\* "Pagina {n}: {msg}", lines 175 and 178
ErrorEntry(page_number, msg) ==
    <<"Pagina", " ", ToString(page_number), ":", " ">> \o msg

CouldNotAnalyze == <<"No se pudo analizar">>
LoadExc  == <<"cannot load page">>
OcrExc   == <<"tesseract is not installed">>
MergeExc == <<"object has no attribute">>

NoResult ==
    [status |-> "none", title |-> <<>>, analysisDate |-> <<>>, error |-> <<>>,
     total_pages |-> 0, errors |-> <<>>, entities |-> NoEntities,
     relationships |-> <<>>]

\* line 121
RaisedResult == [NoResult EXCEPT !.status = "raised"]

\* lines 193-206
FinalResult(now) ==
    [status |-> "returned", title |-> <<"PDF (OCR, pagina por pagina)">>,
     analysisDate |-> now, error |-> <<>>, total_pages |-> num_pages,
     errors |-> errors, entities |-> all_entities,
     relationships |-> all_relationships]

\* line 213: _create_error_response as the value returned
ErrorResult(now) ==
    [NoResult EXCEPT !.status = "returned", !.title = <<"Error">>,
                     !.analysisDate = now,
                     !.error = <<"Error en analisis de PDF">>]

RECURSIVE CountFrom(_, _)
CountFrom(all, i) ==
    IF i > Len(EntityTypes) THEN 0
    ELSE Len(all[EntityTypes[i]]) + CountFrom(all, i + 1)

\* sum(len(ents) for ents in all_entities.values())
TotalEntities(all) == CountFrom(all, 1)

\* lines 140-153: the text of the page, with
\*   status  "load_raised"  load_page / get_text raised
\*           "skipped"      line 148 (continue)
\*           "ocr_raised"   recognition raised
\*           "ok"
PageTextOf(page, ocr_available) ==
    IF ~page.loads THEN [status |-> "load_raised", text |-> <<>>]
    ELSE IF Len(Strip(page.direct)) < NoiseThreshold
    THEN (IF ~ocr_available THEN [status |-> "skipped", text |-> <<>>]
          ELSE IF ~page.ocr_ok THEN [status |-> "ocr_raised", text |-> <<>>]
          ELSE [status |-> "ok", text |-> page.ocr])
    ELSE [status |-> "ok", text |-> page.direct]

\* In the record of an iteration, escaped says that an exception left the
\* try block of lines 138-181 without being handled by line 177; every
\* exception of the loop body is an Exception, which line 177 handles.

\* an iteration that ends before _analyze_single_page
NotAnalyzed(stage, errs) ==
    [all |-> all_entities, rels |-> all_relationships, errors |-> errs,
     stage |-> stage, path |-> "none", called |-> FALSE, merge_raised |-> FALSE,
     escaped |-> FALSE]

\* Fault variant of the loop body: the merge runs outside the try block, so
\* an exception raised while merging leaves the loop.
Analyzed_MergeOutsideTry(r, m) ==
    [all |-> m.all, rels |-> m.rels,
     errors |-> IF m.failed /\ ~m.raised
                THEN Append(errors, ErrorEntry(page_num + 1, CouldNotAnalyze))
                ELSE errors,
     stage |-> "analyzed", path |-> r.path, called |-> r.path # "blank",
     merge_raised |-> m.raised, escaped |-> m.raised]

\* lines 161-181, given the page result r and its merge m
Analyzed(r, m) ==
    [all |-> m.all, rels |-> m.rels,
     errors |-> IF m.raised
                THEN Append(errors, ErrorEntry(page_num + 1, MergeExc))
                ELSE IF m.failed
                THEN Append(errors, ErrorEntry(page_num + 1, CouldNotAnalyze))
                ELSE errors,
     stage |-> "analyzed", path |-> r.path, called |-> r.path # "blank",
     merge_raised |-> m.raised, escaped |-> FALSE]

MergeAnalyzed(r) ==
    Analyzed(r, MergePageResult(all_entities, all_relationships, r.val))

\* One iteration of the loop of lines 135-181 on page page_num, given the
\* page text pt: the accumulators and errors it leaves, with
\*   stage   "skipped"         line 148 (continue)
\*           "extract_raised"  load_page / get_text / recognition raised
\*           "analyzed"        _analyze_single_page was called
\*   path    the path through _analyze_single_page
\*   called  generate_response was invoked
IterationOn(pt, outcome, now) ==
    IF pt.status = "load_raised"
    THEN NotAnalyzed("extract_raised",
                     Append(errors, ErrorEntry(page_num + 1, LoadExc)))
    ELSE IF pt.status = "ocr_raised"
    THEN NotAnalyzed("extract_raised",
                     Append(errors, ErrorEntry(page_num + 1, OcrExc)))
    ELSE IF pt.status = "skipped" THEN NotAnalyzed("skipped", errors)
    ELSE MergeAnalyzed(
             AnalyzeSinglePage(
                 add_page_context(pt.text, page_num, num_pages, pdf.pages,
                                  OCR_AVAILABLE, OverlapSize),
                 outcome, now))

PageIteration(outcome, now) ==
    IterationOn(PageTextOf(pdf.pages[page_num + 1], OCR_AVAILABLE), outcome, now)

Init ==
    /\ fitz \in BOOLEAN
    /\ OCR_AVAILABLE \in BOOLEAN
    /\ pdf \in PdfInputs
    /\ pc = "start"
    /\ num_pages = 0
    /\ page_num = 0
    /\ all_entities = NoEntities
    /\ all_relationships = <<>>
    /\ errors = <<>>
    /\ result = NoResult
    /\ log = <<>>
    /\ lab = LabIdle

\* lines 120-121: raise ImportError
ImportFails ==
    /\ pc = "start"
    /\ ~fitz
    /\ pc' = "done"
    /\ result' = RaisedResult
    /\ UNCHANGED <<fitz, OCR_AVAILABLE, pdf, num_pages, page_num, all_entities,
                   all_relationships, errors, log, lab>>

\* line 124 raises; lines 211-213 return the error response
OpenFails ==
    /\ pc = "start"
    /\ fitz
    /\ ~pdf.readable
    /\ \E now \in Times : result' = ErrorResult(now)
    /\ pc' = "done"
    /\ UNCHANGED <<fitz, OCR_AVAILABLE, pdf, num_pages, page_num, all_entities,
                   all_relationships, errors, log, lab>>

\* lines 124-132
OpenDocument ==
    /\ pc = "start"
    /\ fitz
    /\ pdf.readable
    /\ num_pages' = Len(pdf.pages)
    /\ page_num' = 0
    /\ all_entities' = NoEntities
    /\ all_relationships' = <<>>
    /\ errors' = <<>>
    /\ pc' = "pages"
    /\ UNCHANGED <<fitz, OCR_AVAILABLE, pdf, result, log, lab>>

\* lines 138-153 and, once the page has a text, lines 222-228 and 247-253:
\* the 0-based pages whose text the iteration extracts (load_page, get_text
\* and recognition), in the order of extraction
ExtractedBy(stage) ==
    <<page_num>>
    \o (IF stage = "analyzed" /\ page_num > 0 THEN <<page_num - 1>> ELSE <<>>)
    \o (IF stage = "analyzed" /\ page_num < num_pages - 1
        THEN <<page_num + 1>> ELSE <<>>)

\* the effect of an iteration it of the loop, on oracle outcome number o; an
\* exception that leaves the loop is handled by lines 211-213
PageStep(o, now, it) ==
    /\ it.called \/ o = 1
    /\ pc' = IF it.escaped THEN "done" ELSE pc
    /\ result' = IF it.escaped THEN ErrorResult(now) ELSE result
    /\ all_entities' = it.all
    /\ all_relationships' = it.rels
    /\ errors' = it.errors
    /\ log' = Append(log,
           [page |-> page_num, stage |-> it.stage, path |-> it.path,
            outcome |-> IF it.called THEN o ELSE 0,
            extracted |-> ExtractedBy(it.stage),
            merge_raised |-> it.merge_raised,
            entities_added |-> TotalEntities(it.all) - TotalEntities(all_entities),
            relationships_added |-> Len(it.rels) - Len(all_relationships),
            errors_added |-> Len(it.errors) - Len(errors)])

\* lines 135-181: one iteration
ProcessPage ==
    /\ pc = "pages"
    /\ page_num < num_pages
    /\ \E o \in 1..Len(PageOutcomes), now \in Times :
          PageStep(o, now, PageIteration(PageOutcomes[o], now))
    /\ page_num' = page_num + 1
    /\ UNCHANGED <<fitz, OCR_AVAILABLE, pdf, num_pages, lab>>

\* lines 188-209 / 211-213, given the cross-page list and its merge m
CrossStep(o, now, cross, m) ==
    /\ cross.call \/ o = 1
    /\ all_relationships' = m.list
    /\ result' = IF m.raised THEN ErrorResult(now)
                 ELSE [FinalResult(now) EXCEPT !.relationships = m.list]
    /\ log' = Append(log,
           [page |-> num_pages, stage |-> "cross", path |-> "none",
            outcome |-> IF cross.call THEN o ELSE 0,
            extracted |-> <<>>,
            merge_raised |-> m.raised,
            entities_added |-> 0,
            relationships_added |-> Len(m.list) - Len(all_relationships),
            errors_added |-> 0])

CrossMerge(o, now, cross) ==
    CrossStep(o, now, cross,
              MergeRelationshipList(all_relationships, cross.list))

\* lines 183-213: the cross-page pass and the return
CrossPage ==
    /\ pc = "pages"
    /\ page_num = num_pages
    /\ \E o \in 1..Len(CrossOutcomes), now \in Times :
          CrossMerge(o, now,
                     analyze_cross_page_relationships(all_entities,
                                                      CrossOutcomes[o], now))
    /\ pc' = "done"
    /\ UNCHANGED <<fitz, OCR_AVAILABLE, pdf, num_pages, page_num, all_entities,
                   errors, lab>>

Next ==
    \/ ImportFails
    \/ OpenFails
    \/ OpenDocument
    \/ ProcessPage
    \/ CrossPage

Spec == Init /\ [][Next]_vars

TypeOK ==
    /\ pc \in {"start", "pages", "done"}
    /\ page_num \in 0..num_pages
    /\ Len(log) <= num_pages + 1

(***************************************************************************)
(* Merge harness: the entity merge of lines 165-167 applied to one list of *)
(* observed entities of one type, in two orders at once.                   *)
(***************************************************************************)
\* longest list of observed entities
MaxMerge == 3

LocBeijingV == Ent(<<"B", "E", "I", "J", "I", "N", "G">>, << <<"P", "K">> >>)

EntityPool == <<LocBeijing, LocPekin, LocPeking, LocBeijingV>>

Orders(n) ==
    {f \in [1..n -> 1..n] : \A i, j \in 1..n : i # j => f[i] # f[j]}

\* program variables while the harness runs
MainIdle ==
    /\ fitz = TRUE
    /\ OCR_AVAILABLE = TRUE
    /\ pdf = [readable |-> FALSE, pages |-> <<>>]
    /\ pc = "harness"
    /\ num_pages = 0
    /\ page_num = 0
    /\ all_entities = NoEntities
    /\ all_relationships = <<>>
    /\ errors = <<>>
    /\ result = NoResult
    /\ log = <<>>

InitMerge ==
    /\ MainIdle
    /\ \E n \in 1..MaxMerge :
          \E input \in [1..n -> Range(EntityPool)], order \in Orders(n) :
             lab = [k |-> 0, input |-> input, order |-> order, accA |-> <<>>,
                    accB |-> <<>>, preA |-> <<>>]

\* merge the next observed entity: accA takes the input in the given order,
\* accB in the permuted order
MergeOne ==
    /\ pc = "harness"
    /\ lab.k < Len(lab.input)
    /\ lab' = [lab EXCEPT
                 !.k = lab.k + 1,
                 !.preA = lab.accA,
                 !.accA = MergeEntityList(lab.accA,
                                          <<lab.input[lab.k + 1]>>).list,
                 !.accB = MergeEntityList(lab.accB,
                              <<lab.input[lab.order[lab.k + 1]]>>).list]
    /\ UNCHANGED <<fitz, OCR_AVAILABLE, pdf, pc, num_pages, page_num,
                   all_entities, all_relationships, errors, result, log>>

NextMerge == MergeOne

MergeSpec == InitMerge /\ [][NextMerge]_vars

(***************************************************************************)
(* Properties of analyze_pdf (checked under Spec)                          *)
(***************************************************************************)
PagePrefix(page_number) == <<"Pagina", " ", ToString(page_number), ":">>

\* indices of the entries of errors that name the page (1-based number)
ErrorsForPage(page_number) ==
    {i \in 1..Len(errors) : StartsWith(errors[i], PagePrefix(page_number))}

\* log entries of loop iterations (the last entry of a finished run is the
\* cross-page pass)
PageEntries == {i \in 1..Len(log) : log[i].stage # "cross"}

\* the oracle was called for this iteration and raised
OracleRaised(e) ==
    e.stage = "analyzed" /\ e.outcome # 0 /\ PageOutcomes[e.outcome].raises

\* the iteration added nothing and appended one entry, the only one of its page
IsolatedWithOneError(e) ==
    /\ e.entities_added = 0
    /\ e.relationships_added = 0
    /\ e.errors_added = 1
    /\ Cardinality(ErrorsForPage(e.page + 1)) = 1

\* C1: a page whose oracle call raises (content filter, transport error or
\* timeout) adds no entity and no relationship to the accumulator, and exactly
\* one entry for that page is appended to errors.
C1_OracleFailureIsolated ==
    \A i \in PageEntries : OracleRaised(log[i]) => IsolatedWithOneError(log[i])

\* a finished run in which the oracle timed out on one page and was blocked by
\* the content filter on another
C1_Witness ==
    /\ pc = "done"
    /\ \E i, j \in PageEntries :
          /\ OracleRaised(log[i]) /\ PageOutcomes[log[i].outcome].exc = TimeoutExc
          /\ OracleRaised(log[j])
          /\ PageOutcomes[log[j].outcome].exc = ContentFilterExc

\* C2: a page whose response the parser classifies as Malformed or
\* PromptRejected adds no entity and no relationship, and exactly one entry for
\* that page is appended to errors.
C2_ParserFailureIsolated ==
    \A i \in PageEntries :
        log[i].path \in {"parse_error", "prompt_attack"}
            => IsolatedWithOneError(log[i])

\* the entity is a dict with a str name and a list of str aliases
WellFormedEntity(e) ==
    e.k = "obj" /\ ~NormRaises(EntityName(e)) /\ ~AliasesRaise(e)

\* equivalence as the claims state it: normalized name equality, name in the
\* other's aliases, or intersecting alias sets
EquivalentEntities(e1, e2) ==
    /\ WellFormedEntity(e1) /\ WellFormedEntity(e2)
    /\ \/ norm(EntityName(e1).s) = norm(EntityName(e2).s)
       \/ norm(EntityName(e1).s) \in Range(NormAliases(e2))
       \/ norm(EntityName(e2).s) \in Range(NormAliases(e1))
       \/ Range(NormAliases(e1)) \cap Range(NormAliases(e2)) # {}

NoEquivalentPair(list) ==
    \A i, j \in 1..Len(list) : i < j => ~EquivalentEntities(list[i], list[j])

\* C3: at every point of analyze_pdf and in its result, no two distinct
\* entities stored under the same type are equivalent.
C3_NoEquivalentEntities ==
    \A i \in 1..Len(EntityTypes) :
        /\ NoEquivalentPair(all_entities[EntityTypes[i]])
        /\ NoEquivalentPair(result.entities[EntityTypes[i]])

\* pages answered with DocA and with DocB (equivalent persons and locations
\* under other spellings) were merged, and one person is stored
C3_Witness ==
    /\ pc = "done"
    /\ result.title # <<"Error">>
    /\ \E i, j \in PageEntries :
          /\ log[i].outcome = 1 /\ log[j].outcome = 2
          /\ log[i].stage = "analyzed" /\ log[j].stage = "analyzed"
    /\ Len(result.entities["Person"]) = 1
    /\ Len(result.entities["Location"]) = 2

\* the relationship is a dict whose subject and object are dicts and whose
\* five key fields are strs
WellFormedRel(r) ==
    /\ r.k = "obj"
    /\ RelPart(r, "subject").k = "obj" /\ RelPart(r, "object").k = "obj"
    /\ ~NormRaises(RelAction(r))
    /\ \A part \in {"subject", "object"}, f \in {"type", "name"} :
          ~NormRaises(RelField(r, part, f))

\* the normalized 5-tuple
RelKey(r) ==
    << norm(RelField(r, "subject", "type").s),
       norm(RelField(r, "subject", "name").s),
       norm(RelAction(r).s),
       norm(RelField(r, "object", "type").s),
       norm(RelField(r, "object", "name").s) >>

NoDuplicateKey(list) ==
    \A i, j \in 1..Len(list) :
        (i < j /\ WellFormedRel(list[i]) /\ WellFormedRel(list[j]))
            => RelKey(list[i]) # RelKey(list[j])

\* C4: at every point of analyze_pdf and in its result, no two distinct stored
\* relationships have the same normalized 5-tuple.
C4_NoDuplicateRelationships ==
    NoDuplicateKey(all_relationships) /\ NoDuplicateKey(result.relationships)

\* "Alberto joined ACME Inc." was submitted twice, once with accented / cased
\* variants, and exactly one relationship with that key is stored
C4_Witness ==
    /\ pc = "done"
    /\ result.title # <<"Error">>
    /\ \E i, j \in PageEntries :
          /\ log[i].outcome = 1 /\ log[j].outcome = 2
          /\ log[i].stage = "analyzed" /\ log[j].stage = "analyzed"
    /\ Cardinality({i \in 1..Len(result.relationships) :
                       RelKey(result.relationships[i]) = RelKey(RelJoined)}) = 1

(***************************************************************************)
(* Properties of the entity merge (checked under MergeSpec)                *)
(***************************************************************************)
\* the normalized name and aliases of a stored entity
Mentions(e) == {norm(EntityName(e).s)} \cup Range(NormAliases(e))

MentionSets(acc) == {Mentions(acc[i]) : i \in 1..Len(acc)}

\* C5: merging the same observed entities of one type in any two orders gives
\* the same canonical entities with the same alias membership.
C5_MergeOrderIndependent ==
    (lab.k > 0 /\ lab.k = Len(lab.input))
        => MentionSets(lab.accA) = MentionSets(lab.accB)

EntityTranslation(e) == DictGet(e, Key("translation"), EmptyStr)

\* the stored entity the incoming one is merged into: the first equivalent one
FirstEquivalent(incoming, stored) ==
    CHOOSE i \in 1..Len(stored) :
        /\ EquivalentEntities(incoming, stored[i])
        /\ \A j \in 1..(i-1) : ~EquivalentEntities(incoming, stored[j])

\* after is before with the incoming aliases united into it and the incoming
\* translation copied when before had none
UnitedInto(incoming, before, after) ==
    /\ EntityName(after) = EntityName(before)
    /\ Range(NormAliases(before)) \subseteq Range(NormAliases(after))
    /\ Range(NormAliases(incoming)) \subseteq Mentions(after)
    /\ EntityTranslation(after) =
           IF EntityTranslation(before) = EmptyStr
           THEN EntityTranslation(incoming) ELSE EntityTranslation(before)

\* C6: an incoming entity equivalent to a stored one is merged into it (alias
\* union, translation filled in when empty); an incoming entity equivalent to
\* no stored one is inserted as a new canonical entity.
C6_MergeUnitesAliases ==
    lab.k > 0 =>
        IF \E i \in 1..Len(lab.preA) :
               EquivalentEntities(lab.input[lab.k], lab.preA[i])
        THEN /\ Len(lab.accA) = Len(lab.preA)
             /\ UnitedInto(lab.input[lab.k],
                           lab.preA[FirstEquivalent(lab.input[lab.k], lab.preA)],
                           lab.accA[FirstEquivalent(lab.input[lab.k], lab.preA)])
        ELSE lab.accA = Append(lab.preA, lab.input[lab.k])

(***************************************************************************)
(* Further properties of analyze_pdf (checked under Spec)                  *)
(***************************************************************************)
IsPrefix(a, b) == Len(a) <= Len(b) /\ SubSeq(b, 1, Len(a)) = a

\* C7: a merge (of a page or of the cross-page pass) leaves every stored
\* relationship as it was, category and source included, and appends only
\* relationships whose normalized key was not stored yet.
C7_FirstWriteWins ==
    [][ /\ IsPrefix(all_relationships, all_relationships')
        /\ NoDuplicateKey(all_relationships')
      ]_vars

\* the cross-page pass answered "joined" in its variant spelling after a page
\* had stored it: the stored relationship is the page's, explicit, unchanged
C7_Witness ==
    /\ pc = "done"
    /\ result.title # <<"Error">>
    /\ \E i \in PageEntries : log[i].outcome = 1 /\ log[i].stage = "analyzed"
    /\ log[Len(log)].stage = "cross" /\ log[Len(log)].outcome = 1
    /\ RelJoined \in Range(result.relationships)
    /\ RelJoinedV \notin Range(result.relationships)
    /\ RelLocated \in Range(result.relationships)

\* C8: the loop attempts every page 0..num_pages-1 in ascending order whatever
\* happens on earlier pages; no exception leaves the loop body.
C8_AllPagesAttempted ==
    /\ \A i \in PageEntries : log[i].page = i - 1
    /\ pc = "pages" => Len(log) = page_num
    /\ (pc = "done" /\ fitz /\ pdf.readable)
           => /\ page_num = num_pages
              /\ Len(log) = num_pages + 1
              /\ PageEntries = 1..num_pages

\* a finished run in which an earlier page failed (extraction or the oracle
\* raised) and a later page was still analyzed and contributed entities
C8_Witness ==
    /\ pc = "done"
    /\ \E i, j \in PageEntries :
          /\ i < j
          /\ (log[i].stage = "extract_raised" \/ OracleRaised(log[i]))
          /\ log[i].errors_added = 1
          /\ log[j].stage = "analyzed"
          /\ log[j].entities_added > 0

\* the iteration merged a recovered document without error
GoodPage(e) ==
    /\ e.stage = "analyzed"
    /\ e.path \in {"strict", "truncated"}
    /\ ~e.merge_raised
    /\ e.errors_added = 0

\* what the parser makes of each answer to a page prompt
PageAnswers ==
    [o \in 1..Len(PageOutcomes) |->
        parse_json_response_tolerant(PageOutcomes[o].response, <<"T1">>)]

\* the document the oracle answered with on a good page
AnswerOf(e) == GetKey(PageAnswers[e.outcome], Key("documentAnalysis"))

\* every entity and relationship of the answer has a stored representative
Represented(da, res) ==
    /\ \A t \in 1..Len(EntityTypes) :
          LET items == IterItems(DictGet(DictGet(da, Key("entities"), EmptyDict),
                                         Key(EntityTypes[t]), EmptyList))
              kept  == res.entities[EntityTypes[t]]
          IN  \A a \in 1..Len(items) : \E b \in 1..Len(kept) :
                  kept[b] = items[a] \/ EquivalentEntities(items[a], kept[b])
    /\ LET items == IterItems(DictGet(da, Key("relationships"), EmptyList))
           kept  == res.relationships
       IN  \A a \in 1..Len(items) : \E b \in 1..Len(kept) :
               \/ kept[b] = items[a]
               \/ /\ WellFormedRel(items[a]) /\ WellFormedRel(kept[b])
                  /\ RelKey(items[a]) = RelKey(kept[b])

\* C9: when the oracle raises a content-filter error for page k only, the
\* result holds what the other pages gave, and errors is exactly one entry that
\* names page k with the reason "content filter".
C9_ContentFilterReported ==
    (pc = "done" /\ result.status = "returned" /\ result.title # <<"Error">>)
    => \A k \in PageEntries :
          ( /\ OracleRaised(log[k])
            /\ PageOutcomes[log[k].outcome].exc = ContentFilterExc
            /\ \A j \in PageEntries \ {k} : GoodPage(log[j]) )
          => /\ \A j \in PageEntries \ {k} : Represented(AnswerOf(log[j]), result)
             /\ Len(result.errors) = 1
             /\ StartsWith(result.errors[1], PagePrefix(log[k].page + 1))
             /\ Contains(Lower(result.errors[1]), ContentFilterText)

\* the iteration took nothing from its page
Unprocessed(e) ==
    \/ e.stage \in {"skipped", "extract_raised"}
    \/ e.path \in {"blank", "content_filter", "oracle_error", "parse_error",
                   "prompt_attack", "unexpected"}

\* C10: every page that could not be processed (among them a page with less
\* direct text than the noise threshold while recognition is unavailable) has
\* an entry in errors.
C10_FailedPagesAccounted ==
    \A i \in PageEntries :
        Unprocessed(log[i]) => ErrorsForPage(log[i].page + 1) # {}

(***************************************************************************)
(* Properties of the cross-page pass (checked under Spec)                  *)
(***************************************************************************)
\* the run went through the cross-page pass and returned or raised
CrossDone == pc = "done" /\ Len(log) > 0 /\ log[Len(log)].stage = "cross"

\* what the parser makes of the answer to the cross-page prompt
CrossAnswer(o) ==
    parse_json_response_tolerant(CrossOutcomes[o].response, <<"T1">>)

\* the pass called the oracle and it raised, or its answer is not a list of
\* well-formed relationships
CrossFailed(e) ==
    /\ e.outcome # 0
    /\ \/ CrossOutcomes[e.outcome].raises
       \/ CrossAnswer(e.outcome).k # "arr"
       \/ \E i \in 1..Len(CrossAnswer(e.outcome).items) :
             ~WellFormedRel(CrossAnswer(e.outcome).items[i])

\* the relationships the pages had accumulated when the pass began
PageRelationships ==
    SubSeq(all_relationships, 1,
           Len(all_relationships) - log[Len(log)].relationships_added)

\* C11: whatever way the cross-page pass fails, the result analyze_pdf returns
\* still holds every entity and every relationship the pages had accumulated,
\* unchanged.
C11_CrossFailureKeepsPages ==
    (CrossDone /\ CrossFailed(log[Len(log)]))
    => /\ result.status = "returned"
       /\ result.entities = all_entities
       /\ IsPrefix(PageRelationships, result.relationships)

\* the oracle raised, or its answer was malformed or a refusal
CrossOracleFailed(e) ==
    /\ e.outcome # 0
    /\ \/ CrossOutcomes[e.outcome].raises
       \/ ParseTolerant(CrossOutcomes[e.outcome].response, <<"T1">>).path
             \in {"parse_error", "prompt_attack"}

\* C12: a cross-page pass whose oracle call fails (error, malformed output or
\* refusal) adds no relationship and appends exactly one entry to errors.
C12_CrossFailureRecorded ==
    (CrossDone /\ CrossOracleFailed(log[Len(log)]))
    => /\ log[Len(log)].relationships_added = 0
       /\ Len(result.errors)
             = Cardinality({i \in PageEntries : log[i].errors_added = 1}) + 1

\* C12 without the entry in errors: the failed pass adds no relationship and
\* returns the page results
C12_Rest ==
    (CrossDone /\ CrossOracleFailed(log[Len(log)]))
    => /\ log[Len(log)].relationships_added = 0
       /\ result.title # <<"Error">>
       /\ Len(result.errors)
             = Cardinality({i \in PageEntries : log[i].errors_added = 1})

(***************************************************************************)
(* Parser harness: _parse_json_response_tolerant called twice on one       *)
(* response text, at any two times.                                        *)
(***************************************************************************)
\* number of elements of the relationship array the responses are cut from
MaxElems == 2

\* {"subject": {...}, "action": ..., "object": {...}}
BareRel(stype, sname, action, otype, oname) ==
    JObj(<<Key("subject"), Key("action"), Key("object")>>,
         <<TypedName(stype, sname), JStr(action), TypedName(otype, oname)>>)

ExampleRel == BareRel("Person", <<"A">>, <<"x">>, "Organization", <<"B">>)

\* the text of a JSON array of n relationships
ArrayText(n) == Dump(JArr([i \in 1..n |-> ExampleRel]))

\* every prefix of the array text: complete, or cut off anywhere
CutTexts == {SubSeq(ArrayText(MaxElems), 1, n) : n \in 0..Len(ArrayText(MaxElems))}

\* the answers of generate_response: a cut text as it is, inside a code
\* fence, or followed by the refusal sentinel
ResponseTexts ==
    CutTexts
    \cup {FenceJson \o <<"\n">> \o t \o <<"\n">> \o Fence : t \in CutTexts}
    \cup {t \o <<" ">> \o PromptAttackSentinel : t \in CutTexts}

InitParse ==
    /\ MainIdle
    /\ \E t \in ResponseTexts : lab = [fn |-> "parse", input |-> t, outs |-> <<>>]

\* one more call on the same text
ParseCall ==
    /\ pc = "harness"
    /\ Len(lab.outs) < 2
    /\ \E now \in Times :
          lab' = [lab EXCEPT !.outs =
                     Append(@, ParseTolerant(StrResponse(lab.input), now))]
    /\ UNCHANGED <<fitz, OCR_AVAILABLE, pdf, pc, num_pages, page_num,
                   all_entities, all_relationships, errors, result, log>>

ParseSpec == InitParse /\ [][ParseCall]_vars

(***************************************************************************)
(* Properties of the response parser (checked under ParseSpec)             *)
(***************************************************************************)
\* [{...}  : the array text of one element without its closing bracket
OpenArray == SubSeq(ArrayText(1), 1, Len(ArrayText(1)) - 1)

\* [{...},{"subject":  : a second element cut off right after its opening
TruncationExample == OpenArray \o <<",", "{", Quote, "subject", Quote, ":">>

\* C13: parsing an array whose first element is complete and whose second is
\* cut off right after its opening recovers the one-item list of the complete
\* element, the same value as parsing the text without the partial element.
C13_TruncationRecovered ==
    \A i \in 1..Len(lab.outs) :
        lab.input = TruncationExample
        => /\ lab.outs[i].val = JArr(<<ExampleRel>>)
           /\ lab.outs[i].val
                 = parse_json_response_tolerant(StrResponse(OpenArray), <<"T1">>)

\* what the program does with the example: both parses fail
C13_ExampleMalformed ==
    \A i \in 1..Len(lab.outs) :
        lab.input = TruncationExample => lab.outs[i].path = "parse_error"

\* the value is an error response of _create_error_response
IsErrorResponse(v) ==
    /\ v.k = "obj" /\ HasKey(v, Key("documentAnalysis"))
    /\ HasKey(GetKey(v, Key("documentAnalysis")), Key("metadata"))
    /\ GetKey(GetKey(GetKey(v, Key("documentAnalysis")), Key("metadata")),
              Key("title")) = JStr(<<"Error">>)

\* 1-based index of the right-most closing brace or bracket, 0 when none
LastCloser(c) ==
    IF \E i \in 1..Len(c) : c[i] \in {"}", "]"}
    THEN CHOOSE i \in 1..Len(c) :
            /\ c[i] \in {"}", "]"}
            /\ \A j \in (i+1)..Len(c) : c[j] \notin {"}", "]"}
    ELSE 0

\* v is the value of strictly parsing the text t
StrictValueOf(v, t) == json_loads(t).ok /\ v = json_loads(t).val

\* v is what the parser may return for the fence-stripped text c
WholeOrPrefixOrError(v, c) ==
    \/ StrictValueOf(v, c)
    \/ StrictValueOf(v, SubSeq(c, 1, LastCloser(c)))
    \/ IsErrorResponse(v)

\* C14: the parser returns the strict parse of the whole fence-stripped text,
\* or the strict parse of its prefix ending at the right-most closer, or an
\* error response; never a value built from a prefix that does not parse.
C14_RecoveryNeverPartial ==
    \A i \in 1..Len(lab.outs) :
        WholeOrPrefixOrError(lab.outs[i].val, CleanResponse(lab.input))

\* a call that recovered the whole array from a proper prefix of the text
C14_Witness ==
    /\ Len(lab.outs) > 0
    /\ lab.outs[1].path = "truncated"
    /\ LastCloser(CleanResponse(lab.input)) < Len(CleanResponse(lab.input))
    /\ lab.outs[1].val = JArr([i \in 1..MaxElems |-> ExampleRel])

\* the output class of a call
OutputClass(out) ==
    CASE out.path \in {"strict", "truncated"} -> "Recovered"
      [] out.path = "prompt_attack"           -> "PromptRejected"
      [] OTHER                                -> "Malformed"

\* C15: two calls of the parser on the same text give the same output class
\* and, when a value is recovered, the same value, whatever the time of the
\* calls.
C15_ParserDeterministic ==
    Len(lab.outs) = 2
    => /\ OutputClass(lab.outs[1]) = OutputClass(lab.outs[2])
       /\ OutputClass(lab.outs[1]) = "Recovered"
             => lab.outs[1].val = lab.outs[2].val

\* two calls on a text whose array is followed by the sentinel: both recover
\* the array
C15_Witness ==
    /\ Len(lab.outs) = 2
    /\ lab.outs[1].path = "truncated" /\ lab.outs[2].path = "truncated"
    /\ lab.outs[2].val = JArr([i \in 1..MaxElems |-> ExampleRel])

\* two calls at different times on a refused text: the error responses differ
\* in their date and are of one class
RefusedTwice ==
    /\ Len(lab.outs) = 2
    /\ OutputClass(lab.outs[1]) = "PromptRejected"
    /\ lab.outs[1].val # lab.outs[2].val

(***************************************************************************)
(* norm harness: norm applied to a string, to its own result, and to a     *)
(* string that differs from it in one letter case, one diacritic or one    *)
(* separator.                                                               *)
(***************************************************************************)
\* longest input string
MaxNormLen == 3

NormAlphabet ==
    {"A", "a", "a_acute", "COMB_ACUTE", "-", ".", "SCRIPT_B", "SIGMA", "sigma"}

NormInputs == UNION {[1..n -> NormAlphabet] : n \in 0..MaxNormLen}

\* str.upper() of one symbol, for the symbols of the alphabet
UpperSym(c) ==
    IF c = "final_sigma" THEN "SIGMA"
    ELSE IF \E i \in 1..Len(LowerSyms) : LowerSyms[i] = c
    THEN UpperSyms[CHOOSE i \in 1..Len(LowerSyms) : LowerSyms[i] = c]
    ELSE c

InsertAt(s, i, c) == SubSeq(s, 1, i) \o <<c>> \o SubSeq(s, i + 1, Len(s))
DeleteAt(s, i)    == SubSeq(s, 1, i - 1) \o SubSeq(s, i + 1, Len(s))
ReplaceAt(s, i, c) == [s EXCEPT ![i] = c]

\* the strings that differ from s in the case of one letter
CaseVariants(s) ==
    UNION {{ReplaceAt(s, i, LowerSym(s[i])), ReplaceAt(s, i, UpperSym(s[i]))} :
              i \in 1..Len(s)}
    \ {s}

\* ... in one combining mark, written apart or as part of a composed letter
DiacriticVariants(s) ==
    {InsertAt(s, i, "COMB_ACUTE") : i \in 1..Len(s)}
    \cup {DeleteAt(s, i) : i \in {j \in 1..Len(s) : s[j] = "COMB_ACUTE"}}
    \cup {ReplaceAt(s, i, "a") : i \in {j \in 1..Len(s) : s[j] = "a_acute"}}

\* ... in one occurrence of a removed separator
SeparatorVariants(s) ==
    {InsertAt(s, i, c) : i \in 0..Len(s), c \in NormAlphabet \cap SeparatorSyms}
    \cup {DeleteAt(s, i) : i \in {j \in 1..Len(s) : s[j] \in SeparatorSyms}}

Variants(kind, s) ==
    CASE kind = "case"      -> CaseVariants(s)
      [] kind = "diacritic" -> DiacriticVariants(s)
      [] kind = "separator" -> SeparatorVariants(s)

InitNorm ==
    /\ MainIdle
    /\ \E s \in NormInputs :
          lab = [fn |-> "norm", step |-> 0, input |-> s, once |-> <<>>,
                 twice |-> <<>>, kind |-> "none", variant |-> s, other |-> <<>>]

\* norm(s) and norm(norm(s))
NormTwice ==
    /\ pc = "harness"
    /\ lab.step = 0
    /\ lab' = [lab EXCEPT !.step = 1, !.once = norm(lab.input),
                          !.twice = norm(norm(lab.input))]
    /\ UNCHANGED <<fitz, OCR_AVAILABLE, pdf, pc, num_pages, page_num,
                   all_entities, all_relationships, errors, result, log>>

\* norm(t) for a string t one difference away from s
NormVariant ==
    /\ pc = "harness"
    /\ lab.step = 1
    /\ \E kind \in {"case", "diacritic", "separator"} :
          \E t \in Variants(kind, lab.input) :
             lab' = [lab EXCEPT !.step = 2, !.kind = kind, !.variant = t,
                                !.other = norm(t)]
    /\ UNCHANGED <<fitz, OCR_AVAILABLE, pdf, pc, num_pages, page_num,
                   all_entities, all_relationships, errors, result, log>>

NormSpec == InitNorm /\ [][NormTwice \/ NormVariant]_vars

(***************************************************************************)
(* Properties of norm (checked under NormSpec)                             *)
(***************************************************************************)
\* C16: norm is idempotent: norm(norm(s)) = norm(s) for every string s.
C16_NormIdempotent == lab.step >= 1 => lab.twice = lab.once

\* norm is idempotent on strings without a letter that only the
\* compatibility decomposition turns into an upper-case letter
IdempotentWithoutScriptB ==
    (lab.step >= 1 /\ "SCRIPT_B" \notin Range(lab.input))
        => lab.twice = lab.once

\* C17: two strings that differ only in the case of a letter, in a combining
\* diacritic or in an occurrence of a removed separator have the same norm.
C17_NormInsensitive == lab.step = 2 => lab.other = lab.once

\* ... which holds for strings without the capital sigma
InsensitiveWithoutSigma ==
    (lab.step = 2 /\ {"SIGMA", "sigma", "final_sigma"}
                         \cap (Range(lab.input) \cup Range(lab.variant)) = {})
        => lab.other = lab.once

(***************************************************************************)
(* Equivalence harness: _entity_equiv and _relationship_equiv called on a  *)
(* pair of arguments, in both argument orders.                             *)
(***************************************************************************)
\* entities as the oracle may give them, one of them a bare name
EntityArgs ==
    {LocBeijing, LocPekin, LocPeking, LocBeijingV, PerAlberto, PerAlbertoV,
     OrgAcme, Ent(<<"p", "-", "k">>, <<>>), Ent(AcmeIncV, <<Alberto>>),
     Ent(Joined, << <<"A", "L">>, AcmeInc >>), JStr(Beijing)}

\* relationships: RelJoined and RelVisited, and every choice of the seven
\* fields between a variant spelling of RelJoined's and another value
RelationshipArgs ==
    {Rel(st, sn, ac, ot, on, cat, src) :
        st \in {"person", "Organization"}, sn \in {AlbertoV, Peking},
        ac \in {JoinedV, Visited}, ot \in {"organization", "Location"},
        on \in {AcmeIncV, Beijing}, cat \in {"affiliation", "membership"},
        src \in {"explicit", "inferred"}}

InitEquiv ==
    /\ MainIdle
    /\ \/ \E a, b \in EntityArgs :
             lab = [fn |-> "entity", a |-> a, b |-> b, out |-> "none",
                    back |-> "none"]
       \/ \E a \in {RelJoined, RelVisited}, b \in RelationshipArgs :
             lab = [fn |-> "relationship", a |-> a, b |-> b, out |-> "none",
                    back |-> "none"]

\* _entity_equiv(a, b) and _entity_equiv(b, a)
EntityEquivCall ==
    /\ pc = "harness"
    /\ lab.fn = "entity" /\ lab.out = "none"
    /\ lab' = [lab EXCEPT !.out = entity_equiv_call(lab.a, lab.b),
                          !.back = entity_equiv_call(lab.b, lab.a)]
    /\ UNCHANGED <<fitz, OCR_AVAILABLE, pdf, pc, num_pages, page_num,
                   all_entities, all_relationships, errors, result, log>>

\* _relationship_equiv(a, b) and _relationship_equiv(b, a)
RelationshipEquivCall ==
    /\ pc = "harness"
    /\ lab.fn = "relationship" /\ lab.out = "none"
    /\ lab' = [lab EXCEPT !.out = relationship_equiv_call(lab.a, lab.b),
                          !.back = relationship_equiv_call(lab.b, lab.a)]
    /\ UNCHANGED <<fitz, OCR_AVAILABLE, pdf, pc, num_pages, page_num,
                   all_entities, all_relationships, errors, result, log>>

EquivSpec == InitEquiv /\ [][EntityEquivCall \/ RelationshipEquivCall]_vars

(***************************************************************************)
(* Properties of the equivalence predicates (checked under EquivSpec)      *)
(***************************************************************************)
\* C18: _entity_equiv(e1, e2) is true exactly when the normalized names are
\* equal, or the normalized name of one is a normalized alias of the other, or
\* the normalized alias sets intersect; and it is symmetric.
C18_EntityEquivDefinition ==
    (lab.fn = "entity" /\ lab.out # "none")
    => /\ lab.out = lab.back
       /\ (WellFormedEntity(lab.a) /\ WellFormedEntity(lab.b))
             => /\ lab.out \in {"true", "false"}
                /\ lab.out = "true" <=> EquivalentEntities(lab.a, lab.b)

\* a call that is true only because the second name is an alias of the first
\* entity, and its converse
C18_Witness ==
    /\ lab.fn = "entity" /\ lab.out = "true" /\ lab.back = "true"
    /\ norm(EntityName(lab.a).s) # norm(EntityName(lab.b).s)
    /\ norm(EntityName(lab.b).s) \in Range(NormAliases(lab.a))
    /\ norm(EntityName(lab.a).s) \notin Range(NormAliases(lab.b))
    /\ Range(NormAliases(lab.a)) \cap Range(NormAliases(lab.b)) = {}

\* C20: _relationship_equiv(r1, r2) is true exactly when subject type,
\* subject name, action, object type and object name are pairwise equal after
\* normalizing each; category and source do not influence it.
C20_RelationshipEquivDefinition ==
    (lab.fn = "relationship" /\ lab.out # "none")
    => /\ lab.out \in {"true", "false"}
       /\ lab.out = "true" <=> RelKey(lab.a) = RelKey(lab.b)
       /\ lab.back = lab.out

\* a call on two relationships written differently in every key field and
\* with different category and source, which is true
C20_Witness ==
    /\ lab.fn = "relationship" /\ lab.out = "true"
    /\ lab.a = RelJoined
    /\ \A i \in 1..4 :
          RelFieldPairs(lab.a, lab.b)[i][1] # RelFieldPairs(lab.a, lab.b)[i][2]
    /\ RelAction(lab.a) # RelAction(lab.b)
    /\ GetKey(lab.a, Key("category")) # GetKey(lab.b, Key("category"))
    /\ GetKey(lab.a, Key("source")) # GetKey(lab.b, Key("source"))

(***************************************************************************)
(* Entity types in the merge (checked under Spec)                          *)
(***************************************************************************)
\* the entities of the answer listed under the type
AnswerEntities(e, type) ==
    IterItems(DictGet(DictGet(AnswerOf(e), Key("entities"), EmptyDict),
                      Key(type), EmptyList))

\* the entity is stored under the type, itself or as an equivalent entity
KeptUnder(item, type) ==
    \E b \in 1..Len(all_entities[type]) :
        \/ all_entities[type][b] = item
        \/ EquivalentEntities(item, all_entities[type][b])

\* C19: equivalence is applied within one entity type only: an entity of a
\* merged page is dropped only for an equivalent entity stored under its own
\* type, so entities with colliding names under different types are both kept.
C19_EquivalenceWithinType ==
    \A i \in PageEntries :
        GoodPage(log[i])
        => \A t \in 1..Len(EntityTypes) :
              \A a \in 1..Len(AnswerEntities(log[i], EntityTypes[t])) :
                 KeptUnder(AnswerEntities(log[i], EntityTypes[t])[a],
                           EntityTypes[t])

\* pages answered with DocA and then DocC: Beijing is stored as a location and
\* as an organization
C19_Witness ==
    /\ pc = "done"
    /\ Len(log) = 3
    /\ log[1].outcome = 1 /\ GoodPage(log[1])
    /\ log[2].outcome = 3 /\ GoodPage(log[2])
    /\ LocBeijing \in Range(result.entities["Location"])
    /\ LocBeijing \in Range(result.entities["Organization"])

----------------------------------------------------------------------------
\* The context windower on its own: _add_page_context applied to a page of a
\* document of up to MaxWindowPages pages.

MaxWindowPages == 3

\* n distinct symbols "1" .. "n"
Numbered(n) == [i \in 1..n |-> ToString(i)]

WindowPages ==
    { Page(TRUE, Numbered(NoiseThreshold), TRUE, <<>>),
      Page(TRUE, Numbered(OverlapSize + 1), TRUE, <<>>),
      Page(TRUE, Numbered(NoiseThreshold + 10) \o Rep(" ", NoiseThreshold + 10), TRUE, <<>>),
      PageScanned, PageBlank, PageOcrFail, PageCorrupt }

WindowDocs == UNION { [1..n -> WindowPages] : n \in 1..MaxWindowPages }

\* the page under analysis has a text (lines 138-153), the overlap is the
\* caller's 200 or a quarter of it
InitWindow ==
    /\ MainIdle
    /\ \E pages \in WindowDocs, ocr_available \in BOOLEAN,
          overlap_size \in {OverlapSize, OverlapSize \div 4} :
          \E n \in 0..(Len(pages) - 1) :
             /\ PageTextOf(pages[n + 1], ocr_available).status = "ok"
             /\ lab = [fn |-> "window", pages |-> pages, page_num |-> n,
                       ocr_available |-> ocr_available,
                       overlap_size |-> overlap_size,
                       page_text |-> PageTextOf(pages[n + 1], ocr_available).text,
                       done |-> FALSE, out |-> <<>>]

\* _add_page_context(doc, page_num, page_text, overlap_size)
WindowCall ==
    /\ pc = "harness"
    /\ lab.fn = "window" /\ ~lab.done
    /\ lab' = [lab EXCEPT !.done = TRUE,
                          !.out = add_page_context(lab.page_text, lab.page_num,
                                      Len(lab.pages), lab.pages,
                                      lab.ocr_available, lab.overlap_size)]
    /\ UNCHANGED <<fitz, OCR_AVAILABLE, pdf, pc, num_pages, page_num,
                   all_entities, all_relationships, errors, result, log>>

WindowSpec == InitWindow /\ [][WindowCall]_vars

Windowed == pc = "harness" /\ lab.fn = "window" /\ lab.done

\* 1-based positions of a symbol in a text
Positions(s, c) == { i \in 1..Len(s) : s[i] = c }

PrevLabel == PrevMarker[2]
NextLabel == NextMarker[3]
PageLabel == PageMarker(0)[2]

\* every position of label a precedes every position of label b
Precedes(s, a, b) ==
    \A i \in Positions(s, a) : \A j \in Positions(s, b) : i < j

\* C21: the current unit's text is always in the window under its own marker;
\* the previous segment is absent for the first unit and the next segment for
\* the last one, so a one-page document yields the current segment alone; the
\* three markers differ and appear in the order previous, current, next.
C21_WindowShape ==
    Windowed
    => /\ Contains(lab.out, PageMarker(lab.page_num) \o lab.page_text)
       /\ Cardinality(Positions(lab.out, PageLabel)) = 1
       /\ lab.page_num = 0 => Positions(lab.out, PrevLabel) = {}
       /\ lab.page_num = Len(lab.pages) - 1
             => Positions(lab.out, NextLabel) = {}
       /\ Len(lab.pages) = 1
             => lab.out = PageMarker(lab.page_num) \o lab.page_text
       /\ Cardinality({PrevLabel, PageLabel, NextLabel}) = 3
       /\ Precedes(lab.out, PrevLabel, PageLabel)
       /\ Precedes(lab.out, PageLabel, NextLabel)

\* the middle page of three pages of text: all three segments are there
C21_Witness ==
    /\ Windowed
    /\ Len(lab.pages) = 3 /\ lab.page_num = 1
    /\ Positions(lab.out, PrevLabel) # {}
    /\ Positions(lab.out, NextLabel) # {}
    /\ Contains(lab.out, PageMarker(1) \o lab.page_text)

Min2(a, b) == IF a < b THEN a ELSE b

Trailing(t, n) == SubSeq(t, Len(t) - Min2(n, Len(t)) + 1, Len(t))
Leading(t, n) == SubSeq(t, 1, Min2(n, Len(t)))

\* the text analyze_pdf computes for the neighbour at 1-based position k
UnitText(k) == PageTextOf(lab.pages[k], lab.ocr_available)

\* the window opens with the previous segment holding exactly seg
PrevSegmentIs(seg) ==
    StartsWith(lab.out, PrevMarker \o seg \o <<"\n", "\n">>
                        \o PageMarker(lab.page_num))

\* the window closes with the next segment holding exactly seg
NextSegmentIs(seg) ==
    EndsWith(lab.out, lab.page_text \o <<"\n">> \o NextMarker \o seg)

\* C22 as stated: the previous segment is the trailing min(N, len) characters
\* of the previous unit's text and the next segment the leading min(N, len)
\* characters of the next unit's text.
C22_SegmentsExact ==
    Windowed
    => /\ (lab.page_num > 0 /\ UnitText(lab.page_num).status = "ok")
            => PrevSegmentIs(Trailing(UnitText(lab.page_num).text,
                                      lab.overlap_size))
       /\ (lab.page_num < Len(lab.pages) - 1
             /\ UnitText(lab.page_num + 2).status = "ok")
            => NextSegmentIs(Leading(UnitText(lab.page_num + 2).text,
                                     lab.overlap_size))

Blank(t) == Len(Strip(t)) = 0

\* C22 amended: the segments are those exact slices whenever the slice holds
\* something other than whitespace; a slice of whitespace only is left out of
\* the window together with its marker.
C22_SegmentsExactUnlessBlank ==
    Windowed
    => /\ (lab.page_num > 0 /\ UnitText(lab.page_num).status = "ok")
            => IF Blank(Trailing(UnitText(lab.page_num).text, lab.overlap_size))
               THEN Positions(lab.out, PrevLabel) = {}
               ELSE PrevSegmentIs(Trailing(UnitText(lab.page_num).text,
                                           lab.overlap_size))
       /\ (lab.page_num < Len(lab.pages) - 1
             /\ UnitText(lab.page_num + 2).status = "ok")
            => IF Blank(Leading(UnitText(lab.page_num + 2).text, lab.overlap_size))
               THEN Positions(lab.out, NextLabel) = {}
               ELSE NextSegmentIs(Leading(UnitText(lab.page_num + 2).text,
                                          lab.overlap_size))

\* overlap 200 after a page of 50 characters and before a page of 201: the
\* previous segment is the 50 characters, the next one the first 200
C22_Witness ==
    /\ Windowed
    /\ Len(lab.pages) = 3 /\ lab.page_num = 1
    /\ lab.overlap_size = OverlapSize
    /\ lab.pages[1].direct = Numbered(NoiseThreshold)
    /\ lab.pages[3].direct = Numbered(OverlapSize + 1)
    /\ PrevSegmentIs(Numbered(NoiseThreshold))
    /\ NextSegmentIs(Numbered(OverlapSize))

----------------------------------------------------------------------------
\* the page-count threshold of the dispatch the specification describes
PageCountThreshold == 50

\* C23: a document of at most PageCountThreshold pages goes to the
\* whole-document pipeline, so no oracle call is issued for any of its pages.
C23_SmallDocumentDelegated ==
    num_pages <= PageCountThreshold
    => \A i \in PageEntries : log[i].outcome = 0

\* C24: every step leaves the stored entities of every type, the stored
\* relationships and errors in place and only appends to them.
C24_AccumulatorGrows ==
    [][ /\ \A t \in 1..Len(EntityTypes) :
              IsPrefix(all_entities[EntityTypes[t]],
                       all_entities'[EntityTypes[t]])
        /\ IsPrefix(all_relationships, all_relationships')
        /\ IsPrefix(errors, errors') ]_vars

\* two pages that each added entities, the second one onto what the first
\* had stored while finding an equivalent one there, and a cross-page pass
\* that added a relationship
C24_Witness ==
    /\ pc = "done"
    /\ Len(log) = 3
    /\ GoodPage(log[1]) /\ log[1].entities_added > 0
    /\ GoodPage(log[2]) /\ log[2].entities_added > 0
    /\ \E t \in 1..Len(EntityTypes) :
          \E a \in 1..Len(AnswerEntities(log[2], EntityTypes[t])) :
             AnswerEntities(log[2], EntityTypes[t])[a]
                \notin Range(all_entities[EntityTypes[t]])
    /\ log[3].relationships_added > 0
    /\ result.status = "returned"

\* C25: analyze_pdf raises exactly when the document cannot be opened, and
\* returns a result in every other case.
C25_OnlyOpenFailureRaises ==
    pc = "done"
    => (result.status = "raised" <=> (~fitz \/ ~pdf.readable))

OracleCalls == {i \in 1..Len(log) : log[i].outcome # 0}

CrossEntries == {i \in 1..Len(log) : log[i].stage = "cross"}

\* C26: the cross-page pass comes after the iteration of every page, once,
\* and calls the oracle only if an entity is stored; a page gets at most one
\* call, a run over n pages at most n + 1; with no entity stored the pass
\* calls nothing and adds nothing.
C26_CrossPassOnce ==
    /\ Cardinality(CrossEntries) <= 1
    /\ \A i \in CrossEntries :
          /\ i = num_pages + 1 /\ i = Len(log)
          /\ \A j \in 1..num_pages : log[j].page = j - 1
          /\ log[i].outcome # 0 => AnyEntities(all_entities)
          /\ ~AnyEntities(all_entities)
                => log[i].outcome = 0 /\ log[i].relationships_added = 0
    /\ \A i \in PageEntries : \A j \in PageEntries :
          log[i].page = log[j].page => i = j
    /\ Cardinality(OracleCalls) <= num_pages + 1

\* two pages answered without an entity: the pass ends the run without a call
C26_Witness ==
    /\ pc = "done"
    /\ Len(log) = 3
    /\ log[1].outcome # 0 /\ log[2].outcome # 0
    /\ ~AnyEntities(all_entities)
    /\ log[3].stage = "cross" /\ log[3].outcome = 0
    /\ result.status = "returned" /\ result.relationships = all_relationships

\* how often the text of the 0-based page k was extracted so far
Extractions(k) ==
    Cardinality({ <<i, j>> \in (1..Len(log)) \X (1..3) :
                    j <= Len(log[i].extracted) /\ log[i].extracted[j] = k })

\* C27: during a run the text of no page is extracted more than once, also
\* when the page serves as context of a neighbour.
C27_TextComputedOnce ==
    \A k \in 0..(num_pages - 1) : Extractions(k) <= 1

\* C28: an iteration that appended an entry to errors added no entity and no
\* relationship.
C28_MergeAllOrNothing ==
    \A i \in PageEntries :
        log[i].errors_added > 0
        => log[i].entities_added = 0 /\ log[i].relationships_added = 0

(***************************************************************************)
(* EntityGraph.store_analysis_results (src/graph_database.py): which       *)
(* relationships of an analysis result become edges of the graph           *)
(***************************************************************************)
MaxStoreRels == 2

\* lines 85-93
normalize(s) == norm(s)

\* lines 73-77: {"name": entity} for an entity given as a string
EntityObj(entity) ==
    IF entity.k = "str" THEN JObj(<<Key("name")>>, <<entity>>) ELSE entity

\* lines 70-82 for the entities listed under one type: the entries added to
\* entity_uuids and all_entities.  The node of an entity is identified by its
\* name and type as written (MERGE, line 220), which stands for its uuid.
StoredOfType(entity_type, entities) ==
    [i \in 1..Len(entities) |->
        [type |-> Lower(entity_type),
         name |-> GetKey(EntityObj(entities[i]), Key("name")).s,
         obj  |-> EntityObj(entities[i]),
         uuid |-> <<entity_type, GetKey(EntityObj(entities[i]), Key("name")).s>>]]

\* lines 70-82: all entries, in the order of insertion
StoredEntities(doc_analysis) ==
    LET ents == DictGet(doc_analysis, Key("entities"), EmptyDict)
    IN  FlattenSeq([t \in 1..Len(ents.keys) |->
                      StoredOfType(ents.keys[t], ents.items[t].items)])

NoUuid == <<>>

\* the first entry of stored that satisfies the test, 0 when there is none
FirstIndex(stored, Test(_)) ==
    IF \E i \in 1..Len(stored) : Test(stored[i])
    THEN CHOOSE i \in 1..Len(stored) :
            Test(stored[i]) /\ \A j \in 1..(i-1) : ~Test(stored[j])
    ELSE 0

\* lines 96-100; entity_type is a stored (lower-case) type here
find_entity_obj(stored, entity_type, name) ==
    LET Same(e) == e.type = Lower(entity_type)
                   /\ normalize(e.name) = normalize(name)
        i == FirstIndex(stored, Same)
    IN  IF i = 0 THEN PyNone ELSE stored[i].obj

\* lines 134-141: the entry's object, looked up again by type and name, has
\* an alias with the normalized name
AliasHit(stored, e, norm_name) ==
    LET entity_obj == find_entity_obj(stored, e.type, e.name)
    IN  /\ Truthy(entity_obj)
        /\ HasKey(entity_obj, Key("aliases"))
        /\ \E a \in 1..Len(IterItems(GetKey(entity_obj, Key("aliases")))) :
              normalize(IterItems(GetKey(entity_obj, Key("aliases")))[a].s)
                 = norm_name

\* lines 103-145: entity_type is compared as the relationship wrote it
find_entity_uuid(stored, entity_type, name) ==
    LET Exact(e) == e.type = entity_type /\ e.name = name
        ByName(e) == e.type = entity_type /\ normalize(e.name) = normalize(name)
        ByAlias(e) == e.type = entity_type /\ AliasHit(stored, e, normalize(name))
        Found(e) == Exact(e) \/ ByName(e) \/ ByAlias(e)
    IN  IF ~ \E i \in 1..Len(stored) : Found(stored[i]) THEN NoUuid
        ELSE IF FirstIndex(stored, Exact) # 0
        THEN stored[FirstIndex(stored, Exact)].uuid
        ELSE IF FirstIndex(stored, ByName) # 0
        THEN stored[FirstIndex(stored, ByName)].uuid
        ELSE stored[FirstIndex(stored, ByAlias)].uuid

\* lines 148-159 for one relationship: the edge created, with NoUuid at an
\* end that was not found (the relationship is skipped then)
EdgeOf(stored, relationship) ==
    [rel |-> relationship,
     subject_uuid |-> find_entity_uuid(stored,
                          RelField(relationship, "subject", "type").s,
                          RelField(relationship, "subject", "name").s),
     object_uuid |-> find_entity_uuid(stored,
                          RelField(relationship, "object", "type").s,
                          RelField(relationship, "object", "name").s)]

\* lines 59-159: the edges created for the relationships of the result
store_analysis_results(analysis_result) ==
    LET doc_analysis == GetKey(analysis_result, Key("documentAnalysis"))
        stored == StoredEntities(doc_analysis)
        rels == DictGet(doc_analysis, Key("relationships"), EmptyList).items
        Linked(edge) == edge.subject_uuid # NoUuid /\ edge.object_uuid # NoUuid
    IN  SelectSeq([i \in 1..Len(rels) |-> EdgeOf(stored, rels[i])], Linked)

\* relationships as an analysis may write them: types capitalized as the keys
\* of "entities" are, or in lower case; names as stored, as variants, as aliases
RelLowerJoined == Rel("person", Alberto, Joined, "organization", AcmeIncV,
                      "affiliation", "explicit")
RelLowerVisited == Rel("person", AlbertoV, Visited, "location", Beijing,
                       "mobility", "explicit")

StoreRels ==
    {RelJoined, RelJoinedV, RelVisited, RelLocated, RelLowerJoined,
     RelLowerVisited}

StoreEntities ==
    { [types |-> <<"Person", "Organization", "Location">>,
       lists |-> << <<PerAlberto>>, <<OrgAcme>>, <<LocPeking>> >>],
      [types |-> <<"Person", "Location">>,
       lists |-> << <<JStr(Alberto)>>, <<LocPekin, LocBeijing>> >>],
      [types |-> <<"Organization">>, lists |-> << <<OrgAcme>> >>] }

StoreInputs ==
    UNION { { Doc(e.types, e.lists, rels) : e \in StoreEntities,
                                           rels \in [1..n -> StoreRels] }
            : n \in 0..MaxStoreRels }

InitStore ==
    /\ MainIdle
    /\ \E analysis_result \in StoreInputs :
          lab = [fn |-> "store", analysis_result |-> analysis_result,
                 done |-> FALSE, edges |-> <<>>]

StoreCall ==
    /\ pc = "harness"
    /\ lab.fn = "store" /\ ~lab.done
    /\ lab' = [lab EXCEPT !.done = TRUE,
                          !.edges = store_analysis_results(lab.analysis_result)]
    /\ UNCHANGED <<fitz, OCR_AVAILABLE, pdf, pc, num_pages, page_num,
                   all_entities, all_relationships, errors, result, log>>

GraphSpec == InitStore /\ [][StoreCall]_vars

DocAnalysisOf(r) == GetKey(r, Key("documentAnalysis"))

\* the entities of the result listed under the type that carry the name, as
\* their name, as its normalized form or as a normalized alias
NamedUnder(r, type, name) ==
    LET ents == IterItems(DictGet(DictGet(DocAnalysisOf(r), Key("entities"),
                                          EmptyDict), type, EmptyList))
    IN  { i \in 1..Len(ents) :
            \/ EntityName(EntityObj(ents[i])).s = name
            \/ norm(EntityName(EntityObj(ents[i])).s) = norm(name)
            \/ \E a \in 1..Len(IterItems(DictGet(EntityObj(ents[i]),
                                                  Key("aliases"), EmptyList))) :
                  norm(IterItems(DictGet(EntityObj(ents[i]), Key("aliases"),
                                         EmptyList))[a].s) = norm(name) }

\* subject or object of the relationship names an entity of the result
EndMatches(r, rel, part) ==
    NamedUnder(r, RelField(rel, part, "type").s,
               RelField(rel, part, "name").s) # {}

\* C29: every relationship of the result whose subject and object each match
\* an entity of the result, by type and by name, normalized name or
\* normalized alias, gets an edge; among them the relationships that write
\* the types as "Person", "Organization", "Location".
C29_MatchingRelationshipsLinked ==
    (pc = "harness" /\ lab.fn = "store" /\ lab.done)
    => LET rels == DictGet(DocAnalysisOf(lab.analysis_result),
                           Key("relationships"), EmptyList).items
       IN  \A i \in 1..Len(rels) :
              (EndMatches(lab.analysis_result, rels[i], "subject")
               /\ EndMatches(lab.analysis_result, rels[i], "object"))
              => \E j \in 1..Len(lab.edges) : lab.edges[j].rel = rels[i]

(***************************************************************************)
(* EnhancedEntityRelationshipExtractor._merge_relationships                *)
(* (src/entity_extractor_improved.py)                                      *)
(***************************************************************************)
MaxRelList == 2

\* rel["subject"]["type"] ... rel["object"]["name"] raise KeyError or
\* TypeError
SignatureRaises(rel) ==
    \/ rel.k # "obj"
    \/ ~HasKey(rel, Key("subject")) \/ ~HasKey(rel, Key("action"))
    \/ ~HasKey(rel, Key("object"))
    \/ \E part \in {"subject", "object"} :
          \/ ~HasKey(RelPart(rel, part), Key("type"))
          \/ ~HasKey(RelPart(rel, part), Key("name"))

\* lines 417-423 / 435-441
SignatureOf(rel) ==
    << GetKey(GetKey(rel, Key("subject")), Key("type")),
       GetKey(GetKey(rel, Key("subject")), Key("name")),
       GetKey(rel, Key("action")),
       GetKey(GetKey(rel, Key("object")), Key("type")),
       GetKey(GetKey(rel, Key("object")), Key("name")) >>

SAO == <<"SAO">>

\* lines 428-429 / 446-447
WithType(rel) ==
    IF HasKey(rel, Key("type")) THEN rel
    ELSE JObj(rel.keys \o <<Key("type")>>, rel.items \o <<JStr(SAO)>>)

\* one of the loops of lines 415-430 and 433-448, from the signatures and
\* the merged list so far
RECURSIVE MergePass(_, _)
MergePass(acc, rels) ==
    IF acc.raised \/ Len(rels) = 0 THEN acc
    ELSE IF SignatureRaises(Head(rels)) THEN [acc EXCEPT !.raised = TRUE]
    ELSE IF SignatureOf(Head(rels)) \in acc.signatures
    THEN MergePass(acc, Tail(rels))
    ELSE MergePass([raised |-> FALSE,
                    signatures |-> acc.signatures \cup {SignatureOf(Head(rels))},
                    merged |-> Append(acc.merged, WithType(Head(rels)))],
                   Tail(rels))

\* lines 411-412
NothingMerged == [raised |-> FALSE, signatures |-> {}, merged |-> <<>>]

\* variant: the inferred relationships are processed before the explicit ones
merge_relationships_InferredFirst(explicit_relationships, inferred_relationships) ==
    MergePass(MergePass(NothingMerged, inferred_relationships),
              explicit_relationships)

\* lines 408-450
merge_relationships(explicit_relationships, inferred_relationships) ==
    MergePass(MergePass(NothingMerged, explicit_relationships),
              inferred_relationships)

\* RelJoined once more, under another category and with a "type" of its own
RelJoinedTyped ==
    JObj(<<Key("subject"), Key("action"), Key("object"), Key("category"),
           Key("type")>>,
         <<TypedName("Person", Alberto), JStr(Joined),
           TypedName("Organization", AcmeInc), JStr(Key("membership")),
           JStr(Key("inferred"))>>)

\* a relationship without an object
RelNoObject ==
    JObj(<<Key("subject"), Key("action")>>,
         <<TypedName("Person", Alberto), JStr(Visited)>>)

RelPool == {RelJoined, RelJoinedTyped, RelVisited, RelLocated, RelNoObject}

RelLists == UNION { [1..n -> RelPool] : n \in 0..MaxRelList }

InitMergeRels ==
    /\ MainIdle
    /\ \E explicit \in RelLists, inferred \in RelLists :
          lab = [fn |-> "merge_relationships", explicit |-> explicit,
                 inferred |-> inferred, done |-> FALSE, raised |-> FALSE,
                 out |-> <<>>]

MergeRelsCall ==
    /\ pc = "harness"
    /\ lab.fn = "merge_relationships" /\ ~lab.done
    /\ lab' = [lab EXCEPT
                 !.done = TRUE,
                 !.raised = merge_relationships(lab.explicit, lab.inferred).raised,
                 !.out = IF merge_relationships(lab.explicit, lab.inferred).raised
                         THEN <<>>
                         ELSE merge_relationships(lab.explicit,
                                                  lab.inferred).merged]
    /\ UNCHANGED <<fitz, OCR_AVAILABLE, pdf, pc, num_pages, page_num,
                   all_entities, all_relationships, errors, result, log>>

MergeRelsSpec == InitMergeRels /\ [][MergeRelsCall]_vars

MergeRelsReturned ==
    pc = "harness" /\ lab.fn = "merge_relationships" /\ lab.done /\ ~lab.raised

\* the five fields of the signature, read from the relationship
Signature5(rel) ==
    << RelField(rel, "subject", "type"), RelField(rel, "subject", "name"),
       RelAction(rel),
       RelField(rel, "object", "type"), RelField(rel, "object", "name") >>

SignaturesIn(rels) == { Signature5(rels[i]) : i \in 1..Len(rels) }

\* o is r, with the field "type": "SAO" added when r has no "type"
TypedCopy(r, o) ==
    IF HasKey(r, Key("type")) THEN o = r
    ELSE /\ o.k = "obj"
         /\ o.keys = r.keys \o <<Key("type")>>
         /\ o.items = r.items \o <<JStr(SAO)>>

\* the first relationship of the list with the signature of o, typed, is o
FirstWithSignature(rels, o) ==
    \E i \in 1..Len(rels) :
        /\ Signature5(rels[i]) = Signature5(o)
        /\ \A j \in 1..(i-1) : Signature5(rels[j]) # Signature5(o)
        /\ TypedCopy(rels[i], o)

\* C30: in the list returned no two relationships share a signature, every
\* signature of either input occurs in it, the relationships kept from the
\* explicit list come before those kept from the inferred list, an inferred
\* relationship with the signature of an explicit one is not kept, and every
\* relationship has a "type", which is "SAO" when it had none.
C30_MergedBySignature ==
    MergeRelsReturned
    => /\ \A i, j \in 1..Len(lab.out) :
             Signature5(lab.out[i]) = Signature5(lab.out[j]) => i = j
       /\ SignaturesIn(lab.out)
             = SignaturesIn(lab.explicit) \cup SignaturesIn(lab.inferred)
       /\ \A i \in 1..Len(lab.out) :
             /\ HasKey(lab.out[i], Key("type"))
             /\ IF Signature5(lab.out[i]) \in SignaturesIn(lab.explicit)
                THEN FirstWithSignature(lab.explicit, lab.out[i])
                ELSE FirstWithSignature(lab.inferred, lab.out[i])
       /\ \A i, j \in 1..Len(lab.out) :
             (/\ Signature5(lab.out[i]) \in SignaturesIn(lab.explicit)
              /\ Signature5(lab.out[j]) \notin SignaturesIn(lab.explicit))
             => i < j

\* an explicit and an inferred relationship with one signature, and an
\* inferred one with another: the explicit one is kept and gets "SAO", the
\* inferred duplicate is dropped
C30_Witness ==
    /\ MergeRelsReturned
    /\ lab.explicit = <<RelVisited, RelJoined>>
    /\ lab.inferred = <<RelJoinedTyped, RelLocated>>
    /\ Len(lab.out) = 3
    /\ lab.out[2] = WithType(RelJoined)
    /\ GetKey(lab.out[2], Key("type")) = JStr(SAO)
    /\ lab.out[3] = WithType(RelLocated)

====
